---------------------------- MODULE Spec2Model ----------------------------
(***************************************************************************)
(* Hazard-aware route planning (GreenCommute ATL backend).                 *)
(*                                                                         *)
(* Several state machines share this module:                               *)
(*   Spec         one POST /api/routes/plan request (routes router, steps  *)
(*                1-8), each await taken as one step                       *)
(*   SpecGeo      calls of the exported geo.ts functions on bounded inputs *)
(*   SpecFallback calls of generateFallbackRecommendation                  *)
(*   SpecReports  the reports router and the hazards planning reads from it*)
(*   SpecLive     the POST /plan request with every provider call in       *)
(*                flight as a separate step, under fairness                *)
(*   SpecCameras  the cameras router: GET /api/cameras, /refresh and       *)
(*                /hazards/active with the background analysis loop, each  *)
(*                await taken as one step                                  *)
(*                                                                         *)
(* Numbers.  Coordinates are kept as the integers the polyline decoder     *)
(* accumulates (degrees * 1e5).  Distances returned by haversineDistance   *)
(* are kept in decimetres (floor of 10 * metres), so Math.round is a real  *)
(* rounding step.  The exposure score is accumulated exactly as a          *)
(* numerator over 500 (the code accumulates IEEE doubles).                 *)
(***************************************************************************)
EXTENDS Integers, Sequences, FiniteSets, TLC

VARIABLES
    \* ---- POST /plan ----
    pc,              \* position of the request handler
    request,         \* validated RouteRequest (preferEco, avoidHazards)
    fastDirections,  \* settled result of the "fastest" directions call
    ecoDirections,   \* settled result of the "eco" directions call
    weatherResult,   \* settled result of fetchWeatherData
    aqiResult,       \* settled result of fetchAirQualityData
    hazards,         \* HazardPoint[] of step 3
    routes,          \* RouteOption[] being built
    baseRoutes,      \* the snapshot [...routes] iterated by step 5
    avoidIdx,        \* index of the next snapshot entry step 5 visits
    requeries,       \* the avoidance re-queries issued so far
    geminiResult,    \* what the reasoner did in step 8
    response,        \* what the handler returned
    \* ---- geo.ts called directly ----
    gPc,             \* "idle" | "found" | "scored"
    gPath,           \* polylinePoints argument
    gHazards,        \* hazards argument
    gRadius,         \* radiusMeters argument
    gNearby,         \* NearbyHazard[] at hand
    gOrigin,         \* where gNearby came from: "findNearbyHazards" | "caller"
    gScore,          \* result of calculateHazardExposureScore(gNearby)
    gEncoded,        \* encoded argument of decodePolyline
    gDecodeOutcome,  \* how decodePolyline(gEncoded) ended
    gWaypoints,      \* result of generateAvoidanceWaypoints(gPath, gNearby)
    gSent,           \* re-query step 5 makes with gWaypoints, if any
    gBefore,         \* routePointBefore argument of generateAvoidanceWaypoint
    gAfter,          \* routePointAfter argument
    gHazardLoc,      \* hazardPoint argument
    gOffset,         \* offsetMeters argument
    gWaypoint,       \* the LatLng generateAvoidanceWaypoint returned
    gSampled,        \* sampledPoints of findNearbyHazards, as path indices
    \* ---- generateFallbackRecommendation called directly ----
    fbPc,            \* "idle" | "returned"
    fbRoutes,        \* routes argument
    fbHazards,       \* hazards argument
    fbPreferEco,     \* preferEco argument
    fbRecommendation,\* the GeminiRecommendation returned
    \* ---- reports router ----
    reports,         \* the in-memory report store
    repAnswer,       \* data of the last GET /api/reports answer
    repHazards,      \* hazard points fetchAllHazards built from repAnswer
    \* ---- provider calls of POST /plan ----
    calls,           \* each call: "unsent" | "inFlight" | "settled"
    \* ---- cameras router ----
    camPc,           \* "boot" | "serving"
    geminiConfigured,\* what isGeminiConfigured() returns in this process
    cameraCache,     \* Null or the cached camera list and its freshness
    hazardStatuses,  \* per camId: who wrote the stored status, -1 if none
    backgroundAnalysisInProgress,
    loops,           \* the running calls of analyzeAllCamerasInBackground
    camRequests,     \* handlers awaiting the GDOT answer
    camCounters,     \* requests, refreshes and loops started so far
    camLog           \* what the calls of analyzeAllCamerasInBackground did

planVars == <<pc, request, fastDirections, ecoDirections, weatherResult,
              aqiResult, hazards, routes, baseRoutes, avoidIdx, requeries,
              geminiResult, response>>
geoVars == <<gPc, gPath, gHazards, gRadius, gNearby, gOrigin, gScore,
             gEncoded, gDecodeOutcome, gWaypoints>>
geoData == <<gPath, gHazards, gRadius, gNearby, gOrigin, gScore,
                  gEncoded, gDecodeOutcome, gWaypoints>>
wpVars == <<gSent, gBefore, gAfter, gHazardLoc, gOffset, gWaypoint, gSampled>>
fbVars == <<fbPc, fbRoutes, fbHazards, fbPreferEco, fbRecommendation>>
repVars == <<reports, repAnswer, repHazards>>
camVars == <<camPc, geminiConfigured, cameraCache, hazardStatuses,
             backgroundAnalysisInProgress, loops, camRequests, camCounters,
             camLog>>
vars == <<planVars, geoVars, wpVars, fbVars, repVars, calls, camVars>>

-----------------------------------------------------------------------------
(* Small helpers *)

Max(a, b) == IF a >= b THEN a ELSE b
Min(a, b) == IF a <= b THEN a ELSE b
Abs(a) == IF a < 0 THEN -a ELSE a

RECURSIVE Pow2(_)
Pow2(n) == IF n = 0 THEN 1 ELSE 2 * Pow2(n - 1)

\* floor(sqrt(n)) by bisection on [lo, hi]
RECURSIVE ISqrtIn(_, _, _)
ISqrtIn(n, lo, hi) ==
    IF lo >= hi THEN lo
    ELSE LET mid == (lo + hi + 1) \div 2
         IN  IF mid * mid <= n THEN ISqrtIn(n, mid, hi)
                               ELSE ISqrtIn(n, lo, mid - 1)
ISqrt(n) == ISqrtIn(n, 0, 46340)

\* All sequences over S of length 0..n
RECURSIVE SeqsUpTo(_, _)
SeqsUpTo(S, n) ==
    IF n = 0 THEN {<<>>}
    ELSE LET shorter == SeqsUpTo(S, n - 1)
         IN  shorter \cup {Append(s, x) : s \in shorter, x \in S}

\* All sequences over S of length 0..n that hold no element twice
RECURSIVE ListsUpTo(_, _)
ListsUpTo(S, n) ==
    IF n = 0 THEN {<<>>}
    ELSE LET shorter == ListsUpTo(S, n - 1)
         IN  shorter \cup
             {Append(p[1], p[2]) :
                 p \in {q \in shorter \X S :
                           \A k \in 1..Len(q[1]) : q[1][k] # q[2]}}

-----------------------------------------------------------------------------
(* geo.ts: polyline decoder *)

\* One do-while loop of decodePolyline: reads 5-bit chunks from `encoded`
\* (a sequence of char codes, 1-based) starting at `index` until a chunk
\* without the continuation bit.  charCodeAt past the end is NaN: NaN & 0x1f
\* is 0 and NaN >= 0x20 is false, so the loop ends with a zero chunk.
RECURSIVE DecodeChunks(_, _, _, _)
DecodeChunks(encoded, index, shift, result) ==
    LET atEnd == index > Len(encoded)
        byte == IF atEnd THEN 0 ELSE encoded[index] - 63
        res == result + (byte % 32) * Pow2(shift)
    IN  IF ~atEnd /\ byte >= 32
        THEN DecodeChunks(encoded, index + 1, shift + 5, res)
        ELSE [result |-> res, index |-> index + 1]

\* result & 1 ? ~(result >> 1) : result >> 1
ZigZag(result) ==
    IF result % 2 = 1 THEN -(result \div 2) - 1 ELSE result \div 2

RECURSIVE DecodeFrom(_, _, _, _, _)
DecodeFrom(encoded, index, lat, lng, points) ==
    IF index > Len(encoded) THEN points
    ELSE LET a == DecodeChunks(encoded, index, 0, 0)
             lat2 == lat + ZigZag(a.result)
             b == DecodeChunks(encoded, a.index, 0, 0)
             lng2 == lng + ZigZag(b.result)
         IN  DecodeFrom(encoded, b.index, lat2, lng2,
                        Append(points, [lat |-> lat2, lng |-> lng2]))

decodePolyline(encoded) == DecodeFrom(encoded, 1, 0, 0, <<>>)

\* How a call of decodePolyline ends: the function has no throw statement
\* and charCodeAt, the bit operators and push do not throw, so it returns.
DecodeOutcome(encoded) ==
    [status |-> "returned", points |-> decodePolyline(encoded)]

-----------------------------------------------------------------------------
(* geo.ts: haversine distance *)

\* cos(latitude) * 10000 at the latitude of the modelled area (41.85 N, the
\* area of the built-in mock polyline); Math.cos(toRadians(a.lat)) and
\* Math.cos(toRadians(b.lat)) agree to 5 digits over the few hundred metres
\* the model spans.
CosLatE4 == 7449

\* decimetres per 1e-5 degree of arc, * 1000:
\* EARTH_RADIUS_METERS * pi / 180 * 1e-5 = 1.11195 m = 11.1195 dm
DmPerUnitE3 == 11119

\* 2 * R * asin(sqrt(h)) for two points at most a few kilometres apart: the
\* small-angle form R * sqrt(dLat^2 + cos(lat)^2 * dLng^2).  dLat and dLng
\* are taken in tenths of 1e-5 degree; the result is in decimetres.
haversineDistance(a, b) ==
    LET dLat == 10 * Abs(b.lat - a.lat)
        dLng == (Abs(b.lng - a.lng) * CosLatE4) \div 1000
        h == dLat * dLat + dLng * dLng
    IN  (ISqrt(h) * DmPerUnitE3) \div 10000

\* Math.round of a distance held in decimetres, in metres
RoundDm(d) == (d + 5) \div 10

\* Infinity, the initial value of minDistance and closestDist
Infinity == 100000000


-----------------------------------------------------------------------------
(* geo.ts: nearby-hazard detection *)

\* Variant of SampleStep that samples every point
NoStride(len) == 1

\* step = Math.max(1, Math.floor(polylinePoints.length / 200))
SampleStep(len) == Max(1, len \div 200)

\* Indices (1-based) of the points pushed to sampledPoints: i = 0, step, ...
\* and then the last point unless it is the point pushed last.
SampledIndices(len) ==
    LET step == SampleStep(len)
        n == ((len - 1) \div step) + 1
        strided == [k \in 1..n |-> (k - 1) * step + 1]
    IN  IF strided[n] # len THEN Append(strided, len) ELSE strided

\* Variant of ScanMinDistance that always stops at the point it starts from
ScanFirstPoint(points, idx, i, hazardLoc, minDistance, radiusMeters) ==
    IF i > Len(idx) THEN minDistance
    ELSE haversineDistance(points[idx[i]], hazardLoc)

\* Variant of ScanMinDistance that breaks once the minimum is below
\* radiusMeters
RECURSIVE ScanStopWithinRadius(_, _, _, _, _, _)
ScanStopWithinRadius(points, idx, i, hazardLoc, minDistance, radiusMeters) ==
    IF i > Len(idx) THEN minDistance
    ELSE LET dist == haversineDistance(points[idx[i]], hazardLoc)
             m == IF dist < minDistance THEN dist ELSE minDistance
         IN  IF m < radiusMeters * 10 THEN m
             ELSE ScanStopWithinRadius(points, idx, i + 1, hazardLoc, m,
                                       radiusMeters)

\* The inner loop over sampledPoints for one hazard, from position i on:
\* keeps the running minimum and breaks once it is below radiusMeters * 0.5.
RECURSIVE ScanMinDistance(_, _, _, _, _, _)
ScanMinDistance(points, idx, i, hazardLoc, minDistance, radiusMeters) ==
    IF i > Len(idx) THEN minDistance
    ELSE LET dist == haversineDistance(points[idx[i]], hazardLoc)
             m == IF dist < minDistance THEN dist ELSE minDistance
         IN  IF 2 * m < radiusMeters * 10 THEN m
             ELSE ScanMinDistance(points, idx, i + 1, hazardLoc, m,
                                  radiusMeters)

\* Variant of MapSet that appends whether or not the key is present
MapPush(map, entry) == Append(map, entry)

\* Map.prototype.set on a Map kept as its entries in insertion order: an
\* existing key keeps its position and takes the new value.
MapSet(map, entry) ==
    IF \E k \in 1..Len(map) : map[k].id = entry.id
    THEN [k \in 1..Len(map) |->
             IF map[k].id = entry.id THEN entry ELSE map[k]]
    ELSE Append(map, entry)

\* {...hazard, distanceMeters: Math.round(minDistance)}
WithDistance(hazard, minDistance) ==
    [id |-> hazard.id, lat |-> hazard.lat, lng |-> hazard.lng,
     type |-> hazard.type, severity |-> hazard.severity,
     source |-> hazard.source, distanceMeters |-> RoundDm(minDistance)]

\* Variant of WithinRadius that keeps every hazard
AnyDistance(minDistance, radiusMeters) == TRUE

\* if (minDistance <= radiusMeters)
WithinRadius(minDistance, radiusMeters) == minDistance <= radiusMeters * 10

\* The loop over hazards, from hazard k on, filling nearbyMap.
RECURSIVE CollectNearby(_, _, _, _, _, _)
CollectNearby(points, idx, hazardList, k, radiusMeters, nearbyMap) ==
    IF k > Len(hazardList) THEN nearbyMap
    ELSE LET hazard == hazardList[k]
             hazardLoc == [lat |-> hazard.lat, lng |-> hazard.lng]
             minDistance == ScanMinDistance(points, idx, 1, hazardLoc,
                                            Infinity, radiusMeters)
         IN  CollectNearby(points, idx, hazardList, k + 1, radiusMeters,
                 IF WithinRadius(minDistance, radiusMeters)
                 THEN MapSet(nearbyMap, WithDistance(hazard, minDistance))
                 ELSE nearbyMap)

\* Array.prototype.sort((a, b) => a.distanceMeters - b.distanceMeters): a
\* stable sort, here by insertion.
RECURSIVE InsertByDistance(_, _)
InsertByDistance(sorted, x) ==
    IF sorted = <<>> THEN <<x>>
    ELSE IF sorted[Len(sorted)].distanceMeters <= x.distanceMeters
         THEN Append(sorted, x)
         ELSE Append(InsertByDistance(SubSeq(sorted, 1, Len(sorted) - 1), x),
                     sorted[Len(sorted)])

\* Variant of SortByDistance that keeps the Map's insertion order
InsertionOrder(list) == list

RECURSIVE SortByDistance(_)
SortByDistance(list) ==
    IF list = <<>> THEN <<>>
    ELSE InsertByDistance(SortByDistance(SubSeq(list, 1, Len(list) - 1)),
                          list[Len(list)])

findNearbyHazards(polylinePoints, hazardList, radiusMeters) ==
    IF Len(polylinePoints) = 0 \/ Len(hazardList) = 0 THEN <<>>
    ELSE SortByDistance(
             CollectNearby(polylinePoints,
                           SampledIndices(Len(polylinePoints)),
                           hazardList, 1, radiusMeters, <<>>))

-----------------------------------------------------------------------------
(* geo.ts: hazard exposure score *)

\* The sum the loop accumulates in `score`, as a numerator over 500:
\* proximityFactor * severityFactor * 30
\*   = (1 - distanceMeters/500) * (severity/10) * 30
\*   = (500 - distanceMeters) * severity * 3 / 500
RECURSIVE ScoreNumerator(_)
ScoreNumerator(nearbyHazards) ==
    IF nearbyHazards = <<>> THEN 0
    ELSE LET hazard == nearbyHazards[Len(nearbyHazards)]
         IN  ScoreNumerator(SubSeq(nearbyHazards, 1, Len(nearbyHazards) - 1))
             + (500 - hazard.distanceMeters) * hazard.severity * 3

\* Variant of RoundOver500 that truncates
TruncOver500(n) == n \div 500

\* Math.round(n / 500) = floor(n/500 + 1/2)
RoundOver500(n) == (2 * n + 500) \div 1000

calculateHazardExposureScore(nearbyHazards) ==
    IF Len(nearbyHazards) = 0 THEN 0
    ELSE Min(100, RoundOver500(ScoreNumerator(nearbyHazards)))

-----------------------------------------------------------------------------
(* geo.ts: avoidance waypoints *)

\* The scan for closestIdx: the first index with the strictly smallest
\* distance to the hazard (1-based).
RECURSIVE ClosestFrom(_, _, _, _, _)
ClosestFrom(polylinePoints, hazardLoc, i, closestIdx, closestDist) ==
    IF i > Len(polylinePoints) THEN closestIdx
    ELSE LET dist == haversineDistance(polylinePoints[i], hazardLoc)
         IN  IF dist < closestDist
             THEN ClosestFrom(polylinePoints, hazardLoc, i + 1, i, dist)
             ELSE ClosestFrom(polylinePoints, hazardLoc, i + 1, closestIdx,
                              closestDist)

\* a / b rounded to the nearest integer, for b > 0
DivRound(a, b) ==
    IF a >= 0 THEN (2 * a + b) \div (2 * b)
    ELSE -((2 * (-a) + b) \div (2 * b))

\* The number of digits Math.sqrt(x * x + y * y) is kept to, as a factor:
\* as many as the integers allow
LenScale(x, y) ==
    IF x * x + y * y <= 2000 THEN 1000
    ELSE IF x * x + y * y <= 200000 THEN 100 ELSE 10

\* v / Math.sqrt(x * x + y * y), in 1e-4
UnitE4(v, x, y) ==
    LET scale == LenScale(x, y)
    IN  DivRound(v * 10000 * scale, ISqrt(scale * scale * (x * x + y * y)))

\* (v / len) * degOffset with len = Math.sqrt(x * x + y * y) and
\* degOffset = offsetMeters / 111_000 degrees, in halves of 1e-5 degree
OffsetAlong(v, x, y, offsetMeters) ==
    DivRound(UnitE4(v, x, y) * offsetMeters * 2, 11100)

\* Variant of Direction that goes to the hazard's side
DirectionTowards(dotProduct) == IF dotProduct >= 0 THEN 1 ELSE -1

\* const direction = dotProduct >= 0 ? -1 : 1
Direction(dotProduct) == IF dotProduct >= 0 THEN -1 ELSE 1

\* Variant of Nudge that returns the midpoint itself
NoNudge(midLat2, midLng2) == [lat2 |-> midLat2, lng2 |-> midLng2]

\* return { lat: midLat + 0.01, lng: midLng + 0.01 }
Nudge(midLat2, midLng2) == [lat2 |-> midLat2 + 2000, lng2 |-> midLng2 + 2000]

\* generateAvoidanceWaypoint.  The arguments are in 1e-5 degree; the
\* midpoint and the result are in halves of 1e-5 degree (lat2, lng2), so
\* that the midpoint is exact.  The sign of dotProduct is the sign of the
\* product with the perpendicular before it is normalized.
generateAvoidanceWaypoint(routePointBefore, routePointAfter, hazardPoint, offsetMeters) ==
    LET routeDLat == routePointAfter.lat - routePointBefore.lat
        routeDLng == routePointAfter.lng - routePointBefore.lng
        perpLat == -routeDLng
        perpLng == routeDLat
        midLat2 == routePointBefore.lat + routePointAfter.lat
        midLng2 == routePointBefore.lng + routePointAfter.lng
    IN  IF perpLat = 0 /\ perpLng = 0
        THEN LET awayLat2 == midLat2 - 2 * hazardPoint.lat
                 awayLng2 == midLng2 - 2 * hazardPoint.lng
             IN  IF awayLat2 = 0 /\ awayLng2 = 0
                 THEN Nudge(midLat2, midLng2)
                 ELSE [lat2 |-> midLat2 + OffsetAlong(awayLat2, awayLat2,
                                                 awayLng2, offsetMeters),
                       lng2 |-> midLng2 + OffsetAlong(awayLng2, awayLat2,
                                                 awayLng2, offsetMeters)]
        ELSE LET toHazardLat2 == 2 * hazardPoint.lat - midLat2
                 toHazardLng2 == 2 * hazardPoint.lng - midLng2
                 dotProduct == toHazardLat2 * perpLat + toHazardLng2 * perpLng
                 direction == Direction(dotProduct)
             IN  [lat2 |-> midLat2 + direction * OffsetAlong(perpLat,
                                         perpLat, perpLng, offsetMeters),
                  lng2 |-> midLng2 + direction * OffsetAlong(perpLng,
                                         perpLat, perpLng, offsetMeters)]

\* Variant of generateAvoidanceWaypoints that takes closestIdx - 1 and
\* closestIdx + 1 as they are
WaypointsUnclamped(polylinePoints, nearbyHazards) ==
    IF Len(polylinePoints) < 2 \/ Len(nearbyHazards) = 0 THEN <<>>
    ELSE [k \in 1..Len(nearbyHazards) |->
             LET hazard == nearbyHazards[k]
                 hazardLoc == [lat |-> hazard.lat, lng |-> hazard.lng]
                 closestIdx == ClosestFrom(polylinePoints, hazardLoc, 1, 1,
                                           Infinity)
             IN  [hazard |-> hazard.id,
                  beforeIdx |-> closestIdx - 1,
                  afterIdx |-> closestIdx + 1]]

\* One waypoint per nearby hazard, in input order.  A waypoint is kept as
\* the call generateAvoidanceWaypoint(polylinePoints[beforeIdx],
\* polylinePoints[afterIdx], hazardLoc) that produces it.
generateAvoidanceWaypoints(polylinePoints, nearbyHazards) ==
    IF Len(polylinePoints) < 2 \/ Len(nearbyHazards) = 0 THEN <<>>
    ELSE [k \in 1..Len(nearbyHazards) |->
             LET hazard == nearbyHazards[k]
                 hazardLoc == [lat |-> hazard.lat, lng |-> hazard.lng]
                 closestIdx == ClosestFrom(polylinePoints, hazardLoc, 1, 1,
                                           Infinity)
             IN  [hazard |-> hazard.id,
                  beforeIdx |-> Max(1, closestIdx - 1),
                  afterIdx |-> Min(Len(polylinePoints), closestIdx + 1)]]

-----------------------------------------------------------------------------
(* routes router: what the collaborators can answer *)

\* Bounds of the model
MaxCameras == 2      \* cameras in one /api/cameras/hazards/active answer
MaxReports == 1      \* reports in one /api/reports answer

\* Encoded polylines (char codes).  PolylineA runs 1 km due north in three
\* points; PolylineB joins the same end points through a point 1.3 km east.
PolylineA ==
    <<97, 126, 108, 126, 70, 106, 107, 126, 117, 79, 99, 91, 63, 99, 91, 63>>
PolylineB ==
    <<97, 126, 108, 126, 70, 106, 107, 126, 117, 79, 99, 91, 95, 99, 66, 99,
      91, 126, 98, 66>>
\* "a~l~Fjk~uOwHJy@P"
mockPolyline ==
    <<97, 126, 108, 126, 70, 106, 107, 126, 117, 79, 119, 72, 74, 121, 64, 80>>
\* PolylineA cut after the first character of its third codeword
PolylineCut == SubSeq(PolylineA, 1, 11)

\* data.routes of a GoogleDirectionsResponse with status "OK"
\* (of several routes the router reads the first only)
DirectionsData ==
    {<<[overview_polyline |-> PolylineB]>>,
     <<[overview_polyline |-> PolylineCut]>>,
     <<[overview_polyline |-> PolylineA], [overview_polyline |-> PolylineB]>>}

\* A settled fetchGoogleDirections promise
DirectionsOutcomes ==
    {[status |-> "rejected", value |-> <<>>]}
    \cup {[status |-> "fulfilled", value |-> d] : d \in DirectionsData}

SettledStatus == {"fulfilled", "rejected"}

\* Cameras with an active hazard: one 66 m east of PolylineA's middle
\* point, one 33 m west of PolylineB's middle point.
CameraPool ==
    {[camId |-> "1", lat |-> 4185523, lng |-> -8765046, type |-> "Crash",
      severity |-> 10],
     [camId |-> "2", lat |-> 4185523, lng |-> -8763566, type |-> "Debris",
      severity |-> 8]}

\* Community reports 75 m from the common start point of all polylines.
ReportPool ==
    {[reportId |-> "1", type |-> "pothole", lat |-> 4185133,
      lng |-> -8765166, status |-> "pending"],
     [reportId |-> "2", type |-> "flooding", lat |-> 4185133,
      lng |-> -8765166, status |-> "resolved"]}

\* Answers of the two feeds: not ok (or the fetch threw), or ok with data;
\* a feed lists a camera or a report once.
CameraResponses ==
    {[ok |-> FALSE, data |-> <<>>]}
    \cup {[ok |-> TRUE, data |-> d] : d \in ListsUpTo(CameraPool, MaxCameras)}
ReportResponses ==
    {[ok |-> FALSE, data |-> <<>>]}
    \cup {[ok |-> TRUE, data |-> d] : d \in ListsUpTo(ReportPool, MaxReports)}

\* What the reasoner can do: not configured, throw, or answer with an id
GeminiIds == {"route-fast-0", "route-eco-0", "route-avoid-0", "route-7"}
GeminiOutcomes ==
    {[configured |-> FALSE, ok |-> FALSE, recommendedRouteId |-> ""],
     [configured |-> TRUE, ok |-> FALSE, recommendedRouteId |-> ""]}
    \cup {[configured |-> TRUE, ok |-> TRUE, recommendedRouteId |-> id] :
             id \in GeminiIds}

-----------------------------------------------------------------------------
(* routes router: helpers of POST /plan *)

\* const suffix = isHazardAvoiding ? "avoid" : isEcoFriendly ? "eco" : "fast"
RouteSuffix(isEcoFriendly, isHazardAvoiding) ==
    IF isHazardAvoiding THEN "avoid"
    ELSE IF isEcoFriendly THEN "eco" ELSE "fast"

\* data.routes.map((route, index) => ({id: `route-${suffix}-${index}`, ...}))
\* Distance, duration, CO2, name and steps are left out: nothing below
\* reads them.
parseGoogleRoutes(data, isEcoFriendly, isHazardAvoiding) ==
    [index \in 1..Len(data) |->
        [id |-> "route-" \o RouteSuffix(isEcoFriendly, isHazardAvoiding)
                 \o "-" \o ToString(index - 1),
         isEcoFriendly |-> isEcoFriendly,
         isHazardAvoiding |-> isHazardAvoiding,
         polyline |-> data[index].overview_polyline]]

getMockRoutes ==
    <<[id |-> "route-fast-0", isEcoFriendly |-> FALSE,
       isHazardAvoiding |-> FALSE, hazardExposureScore |-> 15,
       polyline |-> mockPolyline],
      [id |-> "route-eco-0", isEcoFriendly |-> TRUE,
       isHazardAvoiding |-> FALSE, hazardExposureScore |-> 8,
       polyline |-> mockPolyline]>>

\* First element of a list as a list of at most one: if (xs[0]) push(xs[0])
FirstOf(xs) == IF Len(xs) > 0 THEN <<xs[1]>> ELSE <<>>

\* Variant of BaseCandidates without the mock fallback
BaseCandidatesNoFallback(fast, eco) ==
    (IF fast.status = "fulfilled"
     THEN FirstOf(parseGoogleRoutes(fast.value, FALSE, FALSE)) ELSE <<>>)
    \o (IF eco.status = "fulfilled"
        THEN FirstOf(parseGoogleRoutes(eco.value, TRUE, FALSE)) ELSE <<>>)

\* Step 2: the base candidates, with the mock fallback
BaseCandidates(fast, eco) ==
    LET fastRoutes == IF fast.status = "fulfilled"
                      THEN FirstOf(parseGoogleRoutes(fast.value, FALSE, FALSE))
                      ELSE <<>>
        ecoRoutes == IF eco.status = "fulfilled"
                     THEN FirstOf(parseGoogleRoutes(eco.value, TRUE, FALSE))
                     ELSE <<>>
        parsed == fastRoutes \o ecoRoutes
    IN  IF Len(parsed) = 0 THEN getMockRoutes ELSE parsed

\* reportSeverity[report.type] ?? 4
reportSeverity(type) ==
    CASE type = "flooding" -> 7
      [] type = "obstruction" -> 6
      [] type = "pothole" -> 5
      [] type = "blocked_bike_lane" -> 4
      [] type = "broken_charger" -> 3
      [] OTHER -> 4

CameraHazard(cam) ==
    [id |-> "cam-" \o cam.camId, lat |-> cam.lat, lng |-> cam.lng,
     type |-> cam.type, severity |-> cam.severity, source |-> "camera"]

ReportHazard(report) ==
    [id |-> "report-" \o report.reportId, lat |-> report.lat,
     lng |-> report.lng, type |-> report.type,
     severity |-> reportSeverity(report.type), source |-> "report"]

\* for (const report of json.data) { if (status === "resolved") continue; push }
RECURSIVE UnresolvedReports(_)
UnresolvedReports(data) ==
    IF data = <<>> THEN <<>>
    ELSE LET rest == UnresolvedReports(SubSeq(data, 1, Len(data) - 1))
             report == data[Len(data)]
         IN  IF report.status = "resolved" THEN rest
             ELSE Append(rest, ReportHazard(report))

\* fetchAllHazards: camera hazards first, then unresolved reports; a feed
\* that fails contributes nothing and the function never rejects.
fetchAllHazards(cameraResponse, reportsResponse) ==
    (IF cameraResponse.ok
     THEN [k \in 1..Len(cameraResponse.data) |->
              CameraHazard(cameraResponse.data[k])]
     ELSE <<>>)
    \o (IF reportsResponse.ok THEN UnresolvedReports(reportsResponse.data)
        ELSE <<>>)

HAZARD_RADIUS_METERS == 500

\* Variant of ScoreRoute that keeps a score the route already carries
KeepBuiltInScore(route, hazardList) ==
    LET nearby == findNearbyHazards(decodePolyline(route.polyline),
                                    hazardList, HAZARD_RADIUS_METERS)
    IN  [id |-> route.id, isEcoFriendly |-> route.isEcoFriendly,
         isHazardAvoiding |-> route.isHazardAvoiding,
         polyline |-> route.polyline,
         nearbyHazards |-> nearby,
         hazardExposureScore |->
             IF "hazardExposureScore" \in DOMAIN route
             THEN route.hazardExposureScore
             ELSE calculateHazardExposureScore(nearby)]

\* Step 4 for one route (and the scoring of an avoidance route in step 5)
ScoreRoute(route, hazardList) ==
    LET nearby == findNearbyHazards(decodePolyline(route.polyline),
                                    hazardList, HAZARD_RADIUS_METERS)
    IN  [id |-> route.id, isEcoFriendly |-> route.isEcoFriendly,
         isHazardAvoiding |-> route.isHazardAvoiding,
         polyline |-> route.polyline,
         nearbyHazards |-> nearby,
         hazardExposureScore |-> calculateHazardExposureScore(nearby)]

ScoreRoutes(routeList, hazardList) ==
    [k \in 1..Len(routeList) |-> ScoreRoute(routeList[k], hazardList)]

\* Variant of AvoidancePass that ignores the request's flag
AvoidancePassIgnoringFlag(req, hazardList) == Len(hazardList) > 0

\* Step 5 guard: if (request.avoidHazards && hazards.length > 0)
AvoidancePass(req, hazardList) == req.avoidHazards /\ Len(hazardList) > 0

\* Variant of ReducesExposure that also accepts an equal score
ReducesExposureOrEqual(avoidScore, routeScore) == avoidScore <= routeScore

\* if (avoidRoutes[0].hazardExposureScore < (route.hazardExposureScore ?? 100))
ReducesExposure(avoidScore, routeScore) == avoidScore < routeScore

\* Variant of AvoidHighwaysFor that never avoids highways
AvoidHighwaysNever(route) == FALSE

\* avoidHighways: route.isEcoFriendly (options of the step 5 re-query)
AvoidHighwaysFor(route) == route.isEcoFriendly

\* Variant of LoopEntries that iterates the live array
LoopOverLive(snapshot, live) == live

\* for (const route of [...routes]): step 5 iterates the copy taken before
\* the loop, not the array it pushes to
LoopEntries(snapshot, live) == snapshot

\* Variant of LimitWaypoints that passes every waypoint on
NoLimit(waypoints) == waypoints

\* waypoints.slice(0, 5)
LimitWaypoints(waypoints) == SubSeq(waypoints, 1, Min(5, Len(waypoints)))

\* What one iteration of step 5 passes to fetchGoogleDirections for a
\* candidate with the given path and nearbyHazards: nothing when nearby is
\* empty (continue) or when no waypoint was generated.
RequeryFor(polylinePoints, nearby) ==
    LET waypoints == generateAvoidanceWaypoints(polylinePoints, nearby)
    IN  IF Len(nearby) > 0 /\ Len(waypoints) > 0
        THEN [issued |-> TRUE, waypoints |-> LimitWaypoints(waypoints)]
        ELSE [issued |-> FALSE, waypoints |-> <<>>]

\* Step 6: weather and air quality, each from its provider or the mock
BuildEnvironmental(weather, aqi) ==
    [weather |-> IF weather = "fulfilled" THEN "OpenWeatherMap"
                 ELSE "getMockWeather",
     airQuality |-> IF aqi = "fulfilled" THEN "AirNow"
                    ELSE "getMockAirQuality"]

\* All nearbyHazards of all routes, in the order step 7 visits them
RECURSIVE AllNearby(_)
AllNearby(routeList) ==
    IF routeList = <<>> THEN <<>>
    ELSE AllNearby(SubSeq(routeList, 1, Len(routeList) - 1))
         \o routeList[Len(routeList)].nearbyHazards

\* The HazardPoint pushed to allNearbyHazards (distanceMeters is dropped)
AsHazardPoint(h) ==
    [id |-> h.id, lat |-> h.lat, lng |-> h.lng, type |-> h.type,
     severity |-> h.severity, source |-> h.source]

\* Variant of PushUnique that pushes every hazard it visits
PushAll(list, k, acc) == [j \in 1..Len(list) |-> AsHazardPoint(list[j])]

\* if (!allNearbyHazardIds.has(h.id)) { add; push }
RECURSIVE PushUnique(_, _, _)
PushUnique(list, k, acc) ==
    IF k > Len(list) THEN acc
    ELSE PushUnique(list, k + 1,
             IF \E j \in 1..Len(acc) : acc[j].id = list[k].id THEN acc
             ELSE Append(acc, AsHazardPoint(list[k])))

\* Step 7
CollectHazardsOnRoute(routeList) == PushUnique(AllNearby(routeList), 1, <<>>)

\* routes.find(test): the first match as a list of at most one; `matches`
\* holds the test's value for every element.
FindRoute(routeList, matches) ==
    LET hits == {k \in 1..Len(routeList) : matches[k]}
    IN  IF hits = {} THEN <<>>
        ELSE <<routeList[CHOOSE k \in hits : \A j \in hits : k <= j]>>

\* Variant of ValidatedRouteId that trusts the reasoner's id
UnvalidatedRouteId(routeList, parsedId) == parsedId

\* gemini.ts: the id check at the end of generateRouteRecommendation
ValidatedRouteId(routeList, parsedId) ==
    IF \E k \in 1..Len(routeList) : routeList[k].id = parsedId THEN parsedId
    ELSE IF Len(routeList) > 0 THEN routeList[1].id ELSE "unknown"

generateRouteRecommendation(routeList, parsedId) ==
    [recommendedRouteId |-> ValidatedRouteId(routeList, parsedId),
     by |-> "gemini"]

\* Variant of generateFallbackRecommendation that tries the eco route
\* before the hazard-avoiding one
FallbackEcoBeforeSafe(routeList, hazardList, preferEco) ==
    LET Each(Test(_)) == [k \in 1..Len(routeList) |-> Test(routeList[k])]
        IsSafe(r) == r.isHazardAvoiding
        IsEco(r) == r.isEcoFriendly /\ ~r.isHazardAvoiding
        IsSafeEco(r) == r.isEcoFriendly /\ r.isHazardAvoiding
        IsFastest(r) == ~r.isEcoFriendly /\ ~r.isHazardAvoiding
        safeRoute == FindRoute(routeList, Each(IsSafe))
        ecoRoute == FindRoute(routeList, Each(IsEco))
        safeEcoRoute == FindRoute(routeList, Each(IsSafeEco))
        fastestRoute == FindRoute(routeList, Each(IsFastest))
        id == IF Len(routeList) = 0 THEN "unknown"
              ELSE IF preferEco /\ safeEcoRoute # <<>>
                   THEN safeEcoRoute[1].id
              ELSE IF preferEco /\ ecoRoute # <<>> THEN ecoRoute[1].id
              ELSE IF Len(hazardList) > 0 /\ safeRoute # <<>>
                   THEN safeRoute[1].id
              ELSE IF fastestRoute # <<>> THEN fastestRoute[1].id
              ELSE routeList[1].id
    IN  [recommendedRouteId |-> id, by |-> "fallback"]

generateFallbackRecommendation(routeList, hazardList, preferEco) ==
    LET Each(Test(_)) == [k \in 1..Len(routeList) |-> Test(routeList[k])]
        IsSafe(r) == r.isHazardAvoiding
        IsEco(r) == r.isEcoFriendly /\ ~r.isHazardAvoiding
        IsSafeEco(r) == r.isEcoFriendly /\ r.isHazardAvoiding
        IsFastest(r) == ~r.isEcoFriendly /\ ~r.isHazardAvoiding
        safeRoute == FindRoute(routeList, Each(IsSafe))
        ecoRoute == FindRoute(routeList, Each(IsEco))
        safeEcoRoute == FindRoute(routeList, Each(IsSafeEco))
        fastestRoute == FindRoute(routeList, Each(IsFastest))
        activeHazards == Len(hazardList)
        id == IF Len(routeList) = 0 THEN "unknown"
              ELSE IF preferEco /\ safeEcoRoute # <<>>
                   THEN safeEcoRoute[1].id
              ELSE IF activeHazards > 0 /\ safeRoute # <<>>
                   THEN safeRoute[1].id
              ELSE IF preferEco /\ ecoRoute # <<>> THEN ecoRoute[1].id
              ELSE IF fastestRoute # <<>> THEN fastestRoute[1].id
              ELSE routeList[1].id
    IN  [recommendedRouteId |-> id, by |-> "fallback"]

\* Step 8
Recommendation(routeList, hazardList, preferEco, gemini) ==
    IF gemini.configured /\ gemini.ok
    THEN generateRouteRecommendation(routeList, gemini.recommendedRouteId)
    ELSE generateFallbackRecommendation(routeList, hazardList, preferEco)

-----------------------------------------------------------------------------
(* POST /plan as a state machine *)

NotSettled == [status |-> "pending", value |-> <<>>]
NoResponse == [status |-> 0]

PlanInit ==
    /\ pc = "idle"
    /\ request = [preferEco |-> FALSE, avoidHazards |-> TRUE]
    /\ fastDirections = NotSettled
    /\ ecoDirections = NotSettled
    /\ weatherResult = "pending"
    /\ aqiResult = "pending"
    /\ hazards = <<>>
    /\ routes = <<>>
    /\ baseRoutes = <<>>
    /\ avoidIdx = 1
    /\ requeries = <<>>
    /\ geminiResult = [configured |-> FALSE, ok |-> FALSE,
                       recommendedRouteId |-> ""]
    /\ response = NoResponse

\* The validated request arrives and the five calls of step 1 are issued.
PlanRequest ==
    /\ pc = "idle"
    /\ \E preferEco \in BOOLEAN, avoidHazards \in BOOLEAN :
           request' = [preferEco |-> preferEco, avoidHazards |-> avoidHazards]
    /\ pc' = "fanout"
    /\ UNCHANGED <<fastDirections, ecoDirections, weatherResult, aqiResult,
                   hazards, routes, baseRoutes, avoidIdx, requeries,
                   geminiResult, response>>
    /\ UNCHANGED <<geoVars, wpVars, fbVars, repVars, calls, camVars>>

\* Promise.allSettled resolves; steps 2, 3 and 4 run, and step 5 takes its
\* snapshot [...routes] when its guard holds.
FanOutSettled ==
    /\ pc = "fanout"
    /\ \E fast \in DirectionsOutcomes, eco \in DirectionsOutcomes,
          weather \in SettledStatus, aqi \in SettledStatus,
          cameraResponse \in CameraResponses,
          reportsResponse \in ReportResponses :
           LET allHazards == fetchAllHazards(cameraResponse, reportsResponse)
               scored == ScoreRoutes(BaseCandidates(fast, eco), allHazards)
               pass == AvoidancePass(request, allHazards)
           IN  /\ fastDirections' = fast
               /\ ecoDirections' = eco
               /\ weatherResult' = weather
               /\ aqiResult' = aqi
               /\ hazards' = allHazards
               /\ routes' = scored
               /\ baseRoutes' = IF pass THEN scored ELSE <<>>
               /\ pc' = IF pass THEN "avoid" ELSE "recommend"
    /\ avoidIdx' = 1
    /\ UNCHANGED <<request, requeries, geminiResult, response>>
    /\ UNCHANGED <<geoVars, wpVars, fbVars, repVars, calls, camVars>>

\* Variant of AfterAvoid that leaves the loop after a rejected re-query
AfterAvoidLeaveOnFailure ==
    /\ avoidIdx' = avoidIdx + 1
    /\ pc' = IF \/ avoidIdx >= Len(baseRoutes)
                \/ /\ Len(requeries') > Len(requeries)
                   /\ requeries'[Len(requeries')].status = "rejected"
             THEN "recommend" ELSE "avoid"

\* Where step 5 goes after the snapshot entry at avoidIdx
AfterAvoid ==
    /\ avoidIdx' = avoidIdx + 1
    /\ pc' = IF avoidIdx >= Len(LoopEntries(baseRoutes, routes'))
             THEN "recommend" ELSE "avoid"

\* Step 5, a route without nearby hazards (continue) or without waypoints
AvoidSkip ==
    /\ pc = "avoid"
    /\ avoidIdx <= Len(LoopEntries(baseRoutes, routes))
    /\ LET route == LoopEntries(baseRoutes, routes)[avoidIdx]
       IN  \/ Len(route.nearbyHazards) = 0
           \/ Len(generateAvoidanceWaypoints(decodePolyline(route.polyline),
                                             route.nearbyHazards)) = 0
    /\ UNCHANGED <<request, fastDirections, ecoDirections, weatherResult,
                   aqiResult, hazards, routes, baseRoutes, requeries,
                   geminiResult, response>>
    /\ AfterAvoid
    /\ UNCHANGED <<geoVars, wpVars, fbVars, repVars, calls, camVars>>

\* Step 5, a route with nearby hazards: the re-query through the waypoints
\* settles; a rejection is caught, a first route is scored and pushed when
\* its exposure is lower.
AvoidRequery ==
    /\ pc = "avoid"
    /\ avoidIdx <= Len(LoopEntries(baseRoutes, routes))
    /\ LET route == LoopEntries(baseRoutes, routes)[avoidIdx]
           waypoints == generateAvoidanceWaypoints(
                            decodePolyline(route.polyline),
                            route.nearbyHazards)
       IN  /\ Len(route.nearbyHazards) > 0
           /\ Len(waypoints) > 0
           /\ \E avoidDirections \in DirectionsOutcomes :
                LET avoidRoutes ==
                        IF avoidDirections.status = "fulfilled"
                        THEN FirstOf(parseGoogleRoutes(avoidDirections.value,
                                         route.isEcoFriendly, TRUE))
                        ELSE <<>>
                    scored == ScoreRoutes(avoidRoutes, hazards)
                    push == /\ Len(scored) > 0
                            /\ ReducesExposure(scored[1].hazardExposureScore,
                                               route.hazardExposureScore)
                IN  /\ routes' = IF push THEN Append(routes, scored[1])
                                 ELSE routes
                    /\ requeries' = Append(requeries,
                         [source |-> avoidIdx,
                          avoidHighways |-> AvoidHighwaysFor(route),
                          waypoints |-> LimitWaypoints(waypoints),
                          status |-> avoidDirections.status,
                          candidate |-> scored,
                          routesAfter |-> Len(routes')])
    /\ AfterAvoid
    /\ UNCHANGED <<request, fastDirections, ecoDirections, weatherResult,
                   aqiResult, hazards, baseRoutes, geminiResult, response>>
    /\ UNCHANGED <<geoVars, wpVars, fbVars, repVars, calls, camVars>>

\* Steps 6, 7 and 8, and the JSON answer.
Recommend ==
    /\ pc = "recommend"
    /\ \E gemini \in GeminiOutcomes :
           /\ geminiResult' = gemini
           /\ response' =
               [status |-> 200,
                environmental |-> BuildEnvironmental(weatherResult, aqiResult),
                hazardsOnRoute |-> CollectHazardsOnRoute(routes),
                recommendation |-> Recommendation(routes, hazards,
                                       request.preferEco, gemini)]
    /\ pc' = "done"
    /\ UNCHANGED <<request, fastDirections, ecoDirections, weatherResult,
                   aqiResult, hazards, routes, baseRoutes, avoidIdx,
                   requeries>>
    /\ UNCHANGED <<geoVars, wpVars, fbVars, repVars, calls, camVars>>

-----------------------------------------------------------------------------
(* generateFallbackRecommendation called directly *)

FallbackInit ==
    /\ fbPc = "idle"
    /\ fbRoutes = <<>>
    /\ fbHazards = <<>>
    /\ fbPreferEco = FALSE
    /\ fbRecommendation = [recommendedRouteId |-> "", by |-> "none"]

\* Bound of the model
MaxFallbackRoutes == 3   \* candidates handed to the fallback

\* The two flags of a RouteOption the fallback reads
RouteKinds ==
    {[isEcoFriendly |-> e, isHazardAvoiding |-> a] :
        e \in BOOLEAN, a \in BOOLEAN}

\* A candidate list: the k-th candidate has the id route-k
AsCandidates(kinds) ==
    [k \in 1..Len(kinds) |->
        [id |-> "route-" \o ToString(k),
         isEcoFriendly |-> kinds[k].isEcoFriendly,
         isHazardAvoiding |-> kinds[k].isHazardAvoiding]]

\* Hazard lists: none or one (the function reads hazards.length only)
FallbackHazards == {<<>>} \cup {<<CameraHazard(cam)>> : cam \in CameraPool}

\* generateFallbackRecommendation(routes, environmental, hazards, preferEco)
CallFallback ==
    /\ fbPc = "idle"
    /\ \E kinds \in SeqsUpTo(RouteKinds, MaxFallbackRoutes),
          hs \in FallbackHazards, preferEco \in BOOLEAN :
           /\ fbRoutes' = AsCandidates(kinds)
           /\ fbHazards' = hs
           /\ fbPreferEco' = preferEco
           /\ fbRecommendation' =
                  generateFallbackRecommendation(AsCandidates(kinds), hs,
                                                 preferEco)
    /\ fbPc' = "returned"
    /\ UNCHANGED <<planVars, geoVars, wpVars, repVars, calls, camVars>>

-----------------------------------------------------------------------------
(* reports router *)

ReportsInit ==
    /\ reports = <<>>
    /\ repAnswer = <<>>
    /\ repHazards = <<>>

\* Bound of the model
MaxStoredReports == 2   \* reports posted to the in-memory store

\* body.type of the requests posted
PostedTypes == {"pothole", "flooding"}

\* What the verification of an image gives: verifyReportImage's answer, or
\* getMockScoutVerification's when Gemini is not configured or throws
VerificationOutcomes ==
    {[by |-> b, verified |-> v] : b \in {"gemini", "mock"}, v \in BOOLEAN}

\* The CommunityReport POST / builds.  generateReportId is taken as the
\* position in the store; all reports are posted at the place of ReportPool.
NewReport(type, hasImage, verification) ==
    [reportId |-> "report_" \o ToString(Len(reports) + 1),
     type |-> type,
     lat |-> 4185133,
     lng |-> -8765166,
     hasImage |-> hasImage,
     verifiedByAi |-> hasImage /\ verification.verified,
     status |-> IF hasImage /\ verification.verified THEN "verified"
                ELSE "pending"]

\* POST /api/reports
PostReport ==
    /\ Len(reports) < MaxStoredReports
    /\ \E type \in PostedTypes, hasImage \in BOOLEAN,
          verification \in VerificationOutcomes :
           reports' = Append(reports, NewReport(type, hasImage, verification))
    /\ UNCHANGED <<repAnswer, repHazards>>
    /\ UNCHANGED <<planVars, geoVars, wpVars, fbVars, calls, camVars>>

\* [...filteredReports].sort(most recent first): reports are pushed in the
\* order of their timestamps
MostRecentFirst(list) == [k \in 1..Len(list) |-> list[Len(list) + 1 - k]]

\* reports.filter((report) => report.status === status)
RECURSIVE FilterByStatus(_, _)
FilterByStatus(list, status) ==
    IF list = <<>> THEN <<>>
    ELSE LET rest == FilterByStatus(SubSeq(list, 1, Len(list) - 1), status)
             last == list[Len(list)]
         IN  IF last.status = status THEN Append(rest, last) ELSE rest

\* data of GET /api/reports, with or without the status filter
ReportsData(filter) ==
    MostRecentFirst(IF filter = "none" THEN reports
                    ELSE FilterByStatus(reports, filter))

\* GET /api/reports from a client
GetReports ==
    /\ \E filter \in {"none", "pending", "verified", "resolved"} :
           repAnswer' = ReportsData(filter)
    /\ UNCHANGED <<reports, repHazards>>
    /\ UNCHANGED <<planVars, geoVars, wpVars, fbVars, calls, camVars>>

\* PATCH /api/reports/:reportId/resolve for a stored report
ResolveReport ==
    /\ \E k \in 1..Len(reports) :
           reports' = [reports EXCEPT ![k].status = "resolved"]
    /\ UNCHANGED <<repAnswer, repHazards>>
    /\ UNCHANGED <<planVars, geoVars, wpVars, fbVars, calls, camVars>>

\* fetchAllHazards of a route planning request, reading GET /api/reports
\* (the camera feed contributes nothing here)
PlanReadsReports ==
    /\ repHazards' = fetchAllHazards([ok |-> FALSE, data |-> <<>>],
                                     [ok |-> TRUE, data |-> ReportsData("none")])
    /\ UNCHANGED <<reports, repAnswer>>
    /\ UNCHANGED <<planVars, geoVars, wpVars, fbVars, calls, camVars>>

-----------------------------------------------------------------------------
(* provider calls of POST /plan *)

ProviderCalls ==
    {"directions-fast", "directions-eco", "weather", "airnow", "cameras",
     "reports", "directions-avoid-1", "directions-avoid-2", "gemini"}

CallsInit == calls = [c \in ProviderCalls |-> "unsent"]

\* The calls Promise.allSettled of step 1 starts at once; fetchAllHazards
\* starts with the camera feed
Step1Calls ==
    {"directions-fast", "directions-eco", "weather", "airnow", "cameras"}

\* The calls made through curl --max-time (fetchWeatherData: 10 s,
\* callGeminiAPI: 60 s); the others are plain fetch calls without a signal
CurlCalls == {"weather", "gemini"}

\* The re-query of step 5 for the snapshot entry i
AvoidCall(i) == "directions-avoid-" \o ToString(i)

\* Step 1 starts its calls.
SendStep1 ==
    /\ pc = "fanout"
    /\ \A c \in Step1Calls : calls[c] = "unsent"
    /\ calls' = [c \in ProviderCalls |->
                    IF c \in Step1Calls THEN "inFlight" ELSE calls[c]]
    /\ UNCHANGED <<planVars, geoVars, wpVars, fbVars, repVars, camVars>>

\* fetchAllHazards goes on to the reports feed once the camera feed has
\* answered or failed.
SendReports ==
    /\ pc = "fanout"
    /\ calls["cameras"] = "settled"
    /\ calls["reports"] = "unsent"
    /\ calls' = [calls EXCEPT !["reports"] = "inFlight"]
    /\ UNCHANGED <<planVars, geoVars, wpVars, fbVars, repVars, camVars>>

\* A provider answers, or its connection fails: the awaited promise settles.
ProviderAnswers ==
    /\ \E c \in ProviderCalls :
           /\ calls[c] = "inFlight"
           /\ calls' = [calls EXCEPT ![c] = "settled"]
    /\ UNCHANGED <<planVars, geoVars, wpVars, fbVars, repVars, camVars>>

\* curl gives up after --max-time: the awaited promise settles.
CurlMaxTime ==
    /\ \E c \in CurlCalls :
           /\ calls[c] = "inFlight"
           /\ calls' = [calls EXCEPT ![c] = "settled"]
    /\ UNCHANGED <<planVars, geoVars, wpVars, fbVars, repVars, camVars>>

\* await Promise.allSettled([...]) resumes once all five promises settled.
FanOutResumes ==
    /\ \A c \in Step1Calls \cup {"reports"} : calls[c] = "settled"
    /\ FanOutSettled

\* Step 5 starts the re-query for the snapshot entry at avoidIdx.
SendRequery ==
    /\ pc = "avoid"
    /\ avoidIdx <= Len(LoopEntries(baseRoutes, routes))
    /\ LET route == LoopEntries(baseRoutes, routes)[avoidIdx]
       IN  /\ Len(route.nearbyHazards) > 0
           /\ Len(generateAvoidanceWaypoints(decodePolyline(route.polyline),
                                             route.nearbyHazards)) > 0
    /\ calls[AvoidCall(avoidIdx)] = "unsent"
    /\ calls' = [calls EXCEPT ![AvoidCall(avoidIdx)] = "inFlight"]
    /\ UNCHANGED <<planVars, geoVars, wpVars, fbVars, repVars, camVars>>

\* await fetchGoogleDirections(...) of step 5 resumes.
RequeryResumes ==
    /\ pc = "avoid"
    /\ calls[AvoidCall(avoidIdx)] = "settled"
    /\ AvoidRequery

\* Step 8 with Gemini configured: the reasoner is called.
SendGemini ==
    /\ pc = "recommend"
    /\ calls["gemini"] = "unsent"
    /\ calls' = [calls EXCEPT !["gemini"] = "inFlight"]
    /\ UNCHANGED <<planVars, geoVars, wpVars, fbVars, repVars, camVars>>

\* Step 8 ends: Gemini is not configured and was not called, or the call
\* has settled.
RecommendResumes ==
    /\ pc = "recommend"
    /\ calls["gemini"] # "inFlight"
    /\ Recommend
    /\ geminiResult'.configured <=> calls["gemini"] = "settled"

\* The steps the handler takes by itself
HandlerStep ==
    \/ PlanRequest
    \/ SendStep1
    \/ SendReports
    \/ FanOutResumes
    \/ AvoidSkip
    \/ SendRequery
    \/ RequeryResumes
    \/ SendGemini
    \/ RecommendResumes

-----------------------------------------------------------------------------
(* geo.ts called directly *)

\* Bounds of the model
MaxGeoHazards == 2   \* hazards handed to findNearbyHazards
MaxScored == 4       \* NearbyHazards handed to calculateHazardExposureScore

\* Paths: none, the decoded polylines above and the one-point path that is
\* their common start
GeoPaths ==
    {<<>>, decodePolyline(PolylineA), decodePolyline(PolylineB),
     decodePolyline(mockPolyline), decodePolyline(SubSeq(PolylineA, 1, 10))}

\* Strings handed to decodePolyline: every prefix of the polylines above,
\* so whole strings and strings cut at any character
EncodedPool ==
    UNION {{SubSeq(p, 1, n) : n \in 0..Len(p)} :
               p \in {PolylineA, PolylineB, mockPolyline}}

\* Hazards: the feeds' hazards, a second entry with the id cam-1 some 320 m
\* north of the first, one exactly on PolylineA's middle point, one exactly
\* on the mock polyline's second point, one 80 m north of that point, and
\* one 249.5 m from the polylines' first point and 78 m from the mock
\* polyline's second point.
GeoHazardPool ==
    {CameraHazard(cam) : cam \in CameraPool}
    \cup {ReportHazard(r) : r \in {x \in ReportPool : x.status # "resolved"}}
    \cup {[id |-> "cam-1", lat |-> 4185813, lng |-> -8765046,
           type |-> "Stall", severity |-> 4, source |-> "camera"],
          [id |-> "cam-3", lat |-> 4185523, lng |-> -8765126,
           type |-> "Crash", severity |-> 10, source |-> "camera"],
          [id |-> "cam-4", lat |-> 4185229, lng |-> -8765132,
           type |-> "Flood", severity |-> 9, source |-> "camera"],
          [id |-> "cam-5", lat |-> 4185301, lng |-> -8765132,
           type |-> "Fire", severity |-> 9, source |-> "camera"],
          [id |-> "cam-6", lat |-> 4185297, lng |-> -8765106,
           type |-> "Stall", severity |-> 5, source |-> "camera"]}

GeoRadii == {250, 500, 1000}

MaxDenseHazards == 7   \* hazards along one path
MaxPathLen == 1200     \* points of a path whose sampling is looked at

\* Hazard k of a run of hazards 80 m east of PolylineA, spread along it in
\* an order that is not the order of their distances
DenseHazard(k) ==
    [id |-> "dense-" \o ToString(k),
     lat |-> 4185073 + ((5 * k) % 8) * 110, lng |-> -8765026,
     type |-> "Debris", severity |-> 6, source |-> "camera"]

DenseHazardLists ==
    {[k \in 1..n |-> DenseHazard(k)] : n \in 1..MaxDenseHazards}

\* NearbyHazards a caller can hand to calculateHazardExposureScore; the
\* function reads distanceMeters and severity only.
ScoredPool ==
    {[distanceMeters |-> d, severity |-> 10] : d \in {0, 125, 250, 500, 1000}}
    \cup {[distanceMeters |-> d, severity |-> 5] : d \in {0, 250}}
    \cup {[distanceMeters |-> 0, severity |-> 0]}

GeoInit ==
    /\ gPc = "idle"
    /\ gPath = <<>>
    /\ gHazards = <<>>
    /\ gRadius = 500
    /\ gNearby = <<>>
    /\ gOrigin = "none"
    /\ gScore = 0
    /\ gEncoded = <<>>
    /\ gDecodeOutcome = [status |-> "none", points |-> <<>>]
    /\ gWaypoints = <<>>
    /\ gSent = [issued |-> FALSE, waypoints |-> <<>>]
    /\ gBefore = [lat |-> 0, lng |-> 0]
    /\ gAfter = [lat |-> 0, lng |-> 0]
    /\ gHazardLoc = [lat |-> 0, lng |-> 0]
    /\ gOffset = 1500
    /\ gWaypoint = [lat2 |-> 0, lng2 |-> 0]
    /\ gSampled = [len |-> 0, indices |-> <<>>]

\* findNearbyHazards(polylinePoints, hazards, radiusMeters)
CallFindNearby ==
    /\ gPc = "idle"
    /\ \E path \in GeoPaths,
          hs \in SeqsUpTo(GeoHazardPool, MaxGeoHazards) \cup DenseHazardLists,
          radius \in GeoRadii :
           /\ gPath' = path
           /\ gHazards' = hs
           /\ gRadius' = radius
           /\ gNearby' = findNearbyHazards(path, hs, radius)
    /\ gOrigin' = "findNearbyHazards"
    /\ gPc' = "found"
    /\ UNCHANGED <<gScore, gEncoded, gDecodeOutcome, gWaypoints>>
    /\ UNCHANGED <<planVars, wpVars, fbVars, repVars, calls, camVars>>

\* calculateHazardExposureScore on the list findNearbyHazards returned
CallScoreOnResult ==
    /\ gPc = "found"
    /\ gScore' = calculateHazardExposureScore(gNearby)
    /\ gPc' = "scored"
    /\ UNCHANGED <<gPath, gHazards, gRadius, gNearby, gOrigin, gEncoded,
                   gDecodeOutcome, gWaypoints>>
    /\ UNCHANGED <<planVars, wpVars, fbVars, repVars, calls, camVars>>

\* calculateHazardExposureScore on a list the caller built
CallScoreDirect ==
    /\ gPc = "idle"
    /\ \E list \in SeqsUpTo(ScoredPool, MaxScored) :
           /\ gNearby' = list
           /\ gScore' = calculateHazardExposureScore(list)
    /\ gOrigin' = "caller"
    /\ gPc' = "scored"
    /\ UNCHANGED <<gPath, gHazards, gRadius, gEncoded, gDecodeOutcome,
                   gWaypoints>>
    /\ UNCHANGED <<planVars, wpVars, fbVars, repVars, calls, camVars>>

\* generateAvoidanceWaypoints on the path and the list findNearbyHazards
\* returned for it
CallWaypoints ==
    /\ gPc = "found"
    /\ gWaypoints' = generateAvoidanceWaypoints(gPath, gNearby)
    /\ gPc' = "waypoints"
    /\ UNCHANGED <<gPath, gHazards, gRadius, gNearby, gOrigin, gScore,
                   gEncoded, gDecodeOutcome>>
    /\ UNCHANGED <<planVars, wpVars, fbVars, repVars, calls, camVars>>

\* The re-query of step 5 for a candidate with the path gPath and the
\* nearbyHazards gNearby
CallRequery ==
    /\ gPc = "waypoints"
    /\ gSent' = RequeryFor(gPath, gNearby)
    /\ gPc' = "requeried"
    /\ UNCHANGED <<gBefore, gAfter, gHazardLoc, gOffset, gWaypoint, gSampled>>
    /\ UNCHANGED <<planVars, geoData, fbVars, repVars, calls, camVars>>

\* The sampling findNearbyHazards does for a path of len points (and at
\* least one hazard); it depends on the number of points only.
CallSample ==
    /\ gPc = "idle"
    /\ \E len \in 1..MaxPathLen :
           gSampled' = [len |-> len, indices |-> SampledIndices(len)]
    /\ gPc' = "sampled"
    /\ UNCHANGED <<gSent, gBefore, gAfter, gHazardLoc, gOffset, gWaypoint>>
    /\ UNCHANGED <<planVars, geoData, fbVars, repVars, calls, camVars>>

\* Points handed to generateAvoidanceWaypoint: the points of the paths and
\* the locations of the hazards
PointPool ==
    UNION {{[lat |-> p[k].lat, lng |-> p[k].lng] : k \in 1..Len(p)} :
               p \in GeoPaths}

HazardLocations ==
    {[lat |-> h.lat, lng |-> h.lng] : h \in GeoHazardPool} \cup PointPool

WaypointOffsets == {1500, 100}

\* generateAvoidanceWaypoint(routePointBefore, routePointAfter, hazardPoint,
\* offsetMeters)
CallWaypoint ==
    /\ gPc = "idle"
    /\ \E before \in PointPool, after \in PointPool,
          hazardPoint \in HazardLocations, offsetMeters \in WaypointOffsets :
           /\ gBefore' = before
           /\ gAfter' = after
           /\ gHazardLoc' = hazardPoint
           /\ gOffset' = offsetMeters
           /\ gWaypoint' = generateAvoidanceWaypoint(before, after,
                                                     hazardPoint, offsetMeters)
    /\ gPc' = "waypoint"
    /\ UNCHANGED <<gSent, gSampled>>
    /\ UNCHANGED <<planVars, geoData, fbVars, repVars, calls, camVars>>

\* decodePolyline(encoded)
CallDecode ==
    /\ gPc = "idle"
    /\ \E encoded \in EncodedPool :
           /\ gEncoded' = encoded
           /\ gDecodeOutcome' = DecodeOutcome(encoded)
    /\ gPc' = "decoded"
    /\ UNCHANGED <<gPath, gHazards, gRadius, gNearby, gOrigin, gScore,
                   gWaypoints>>
    /\ UNCHANGED <<planVars, wpVars, fbVars, repVars, calls, camVars>>

-----------------------------------------------------------------------------
(* Specifications *)

-----------------------------------------------------------------------------
(* The cameras router (routes/cameras.ts)                                  *)
(*                                                                         *)
(* A camera list is [kind, n]: the n cameras GDOT returned, or the mock    *)
(* cameras of getFallbackCameras.  A stored status is kept as the number   *)
(* of refreshes that had happened when the loop that wrote it started.     *)
(* The currentStatus of a cached camera is always the stored status of     *)
(* its camId (set when the cache is built, updated by every analysis), so  *)
(* it is not kept apart.  POST /:camId/analyze is not part of this         *)
(* machine.                                                                *)

MaxCamRequests == 2

\* const BATCH_SIZE = 5
BATCH_SIZE == 5

\* MOCK_CAMERA_DATA has 12 entries
MockCameraCount == 12

\* data.features.length of a GDOT answer that is used: one batch, or two
GdotCameraCounts == {1, 6}

GdotCamIds == 1..6

MockCamIds == 101..(100 + MockCameraCount)

CamIds == GdotCamIds \cup MockCamIds

NoCache == [present |-> FALSE, n |-> 0, fresh |-> FALSE]

\* getFallbackCameras()
FallbackCameras == [kind |-> "mock", n |-> MockCameraCount]

\* camId of the k-th camera of a list
CamIdAt(cameras, k) == IF cameras.kind = "mock" THEN 100 + k ELSE k

\* cameras.slice(i, i + BATCH_SIZE), as camIds
BatchAt(cameras, i) ==
    {CamIdAt(cameras, k) : k \in (i + 1)..(IF i + BATCH_SIZE < cameras.n
                                           THEN i + BATCH_SIZE
                                           ELSE cameras.n)}

\* hazardStatuses.size === 0
NoStatuses(statuses) == \A c \in CamIds : statuses[c] = -1

EmptyStatuses == [c \in CamIds |-> -1]

\* Variant of MayStart that does not look at backgroundAnalysisInProgress
MayStartAnyway(inProgress, configured) == configured

\* The two early returns of analyzeAllCamerasInBackground
MayStart(inProgress, configured) == ~inProgress /\ configured

\* analyzeAllCamerasInBackground(cameras) up to its first await, on the
\* part st of the state it touches: the flag and the running loops.  The
\* first batch is in flight when it yields.
AnalyzeAll(st, cameras, epoch) ==
    IF MayStart(st.inProgress, geminiConfigured)
    THEN [inProgress |-> TRUE,
          loops |-> Append(st.loops,
                           [startEpoch |-> epoch, cameras |-> cameras,
                            i |-> 0, pending |-> BatchAt(cameras, 0)])]
    ELSE st

CamRequestKinds == {"cameras", "refresh", "active"}

CamerasInit ==
    /\ camPc = "boot"
    /\ geminiConfigured = FALSE
    /\ cameraCache = NoCache
    /\ hazardStatuses = EmptyStatuses
    /\ backgroundAnalysisInProgress = FALSE
    /\ loops = <<>>
    /\ camRequests = [kind \in CamRequestKinds |-> 0]
    /\ camCounters = [requests |-> 0, refreshes |-> 0]
    /\ camLog = [geminiFailed |-> FALSE]

NotCameras == <<planVars, geoVars, wpVars, fbVars, repVars, calls>>

\* The process starts with or without GEMINI_API_KEY
CamBoot ==
    /\ camPc = "boot"
    /\ camPc' = "serving"
    /\ geminiConfigured' \in BOOLEAN
    /\ UNCHANGED <<cameraCache, hazardStatuses, backgroundAnalysisInProgress,
                   loops, camRequests, camCounters, camLog>>
    /\ UNCHANGED NotCameras

\* A handler up to the await of fetch in fetchGDOTCameras: /refresh first
\* clears the cache and the statuses; a fresh cache answers at once.
CamRequest ==
    /\ camPc = "serving"
    /\ camCounters.requests < MaxCamRequests
    /\ \E kind \in CamRequestKinds :
           LET refresh == kind = "refresh"
               cache == IF refresh THEN NoCache ELSE cameraCache
               epoch == IF refresh THEN camCounters.refreshes + 1
                        ELSE camCounters.refreshes
           IN  /\ cameraCache' = cache
               /\ hazardStatuses' = IF refresh THEN EmptyStatuses
                                    ELSE hazardStatuses
               /\ camCounters' = [camCounters EXCEPT
                                    !.requests = camCounters.requests + 1,
                                    !.refreshes = epoch]
               /\ camRequests' =
                      IF cache.present /\ cache.fresh THEN camRequests
                      ELSE [camRequests EXCEPT ![kind] = camRequests[kind] + 1]
    /\ UNCHANGED <<camPc, geminiConfigured, backgroundAnalysisInProgress,
                   loops, camLog>>
    /\ UNCHANGED NotCameras

\* The GDOT answer arrives and the handler runs to its return: the cache is
\* set and the analysis triggered if no status is stored (a usable answer),
\* or the mock cameras are taken (an error or an empty answer); /refresh
\* then calls analyzeAllCamerasInBackground on what it got.
GdotAnswers ==
    /\ \E kind \in CamRequestKinds, n \in GdotCameraCounts \cup {0} :
           LET usable == n > 0
               cameras == IF usable THEN [kind |-> "gdot", n |-> n]
                          ELSE FallbackCameras
               epoch == camCounters.refreshes
               st0 == [inProgress |-> backgroundAnalysisInProgress,
                       loops |-> loops]
               st1 == IF usable /\ NoStatuses(hazardStatuses)
                      THEN AnalyzeAll(st0, cameras, epoch) ELSE st0
               st2 == IF kind = "refresh"
                      THEN AnalyzeAll(st1, cameras, epoch) ELSE st1
           IN  /\ camRequests[kind] > 0
               /\ cameraCache' = IF usable
                                 THEN [present |-> TRUE, n |-> n,
                                       fresh |-> TRUE]
                                 ELSE cameraCache
               /\ backgroundAnalysisInProgress' = st2.inProgress
               /\ loops' = st2.loops
               /\ camRequests' = [camRequests EXCEPT
                                     ![kind] = camRequests[kind] - 1]
    /\ UNCHANGED <<camPc, geminiConfigured, hazardStatuses, camCounters,
                   camLog>>
    /\ UNCHANGED NotCameras

\* loops without its k-th entry
WithoutLoop(k) == [j \in 1..(Len(loops) - 1) |->
                       IF j < k THEN loops[j] ELSE loops[j + 1]]

\* One analyzeSingleCamera of the batch in flight settles: Gemini answered,
\* or it failed and the mock analysis is taken; either way the status is
\* stored.
AnalysisSettles ==
    /\ \E k \in 1..Len(loops), camId \in CamIds, geminiFailed \in BOOLEAN :
           /\ camId \in loops[k].pending
           /\ hazardStatuses' = [hazardStatuses EXCEPT
                                    ![camId] = loops[k].startEpoch]
           /\ loops' = [loops EXCEPT
                           ![k].pending = loops[k].pending \ {camId}]
           /\ camLog' = [camLog EXCEPT
                            !.geminiFailed = camLog.geminiFailed
                                                 \/ geminiFailed]
    /\ UNCHANGED <<camPc, geminiConfigured, cameraCache,
                   backgroundAnalysisInProgress, camRequests, camCounters>>
    /\ UNCHANGED NotCameras

\* Promise.allSettled of the batch resolves: the loop takes the next batch,
\* or ends and resets the flag.
LoopResumes ==
    /\ \E k \in 1..Len(loops) :
           /\ loops[k].pending = {}
           /\ IF loops[k].i + BATCH_SIZE < loops[k].cameras.n
              THEN /\ loops' = [loops EXCEPT
                                   ![k].i = loops[k].i + BATCH_SIZE,
                                   ![k].pending =
                                       BatchAt(loops[k].cameras,
                                               loops[k].i + BATCH_SIZE)]
                   /\ UNCHANGED backgroundAnalysisInProgress
              ELSE /\ loops' = WithoutLoop(k)
                   /\ backgroundAnalysisInProgress' = FALSE
    /\ UNCHANGED <<camPc, geminiConfigured, cameraCache, hazardStatuses,
                   camRequests, camCounters, camLog>>
    /\ UNCHANGED NotCameras

\* CACHE_TTL_MS passes since the cache was filled
CacheExpires ==
    /\ cameraCache.present
    /\ cameraCache.fresh
    /\ cameraCache' = [cameraCache EXCEPT !.fresh = FALSE]
    /\ UNCHANGED <<camPc, geminiConfigured, hazardStatuses,
                   backgroundAnalysisInProgress, loops, camRequests,
                   camCounters, camLog>>
    /\ UNCHANGED NotCameras

-----------------------------------------------------------------------------

Init ==
    /\ PlanInit /\ GeoInit /\ FallbackInit /\ ReportsInit /\ CallsInit
    /\ CamerasInit

Next ==
    \/ PlanRequest
    \/ FanOutSettled
    \/ AvoidSkip
    \/ AvoidRequery
    \/ Recommend

Spec == Init /\ [][Next]_vars

GeoNext ==
    \/ CallWaypoint
    \/ CallSample
    \/ CallRequery
    \/ CallFindNearby
    \/ CallScoreOnResult
    \/ CallScoreDirect
    \/ CallWaypoints
    \/ CallDecode

SpecGeo == Init /\ [][GeoNext]_vars

FallbackNext == CallFallback

SpecFallback == Init /\ [][FallbackNext]_vars

ReportsNext ==
    \/ PostReport
    \/ GetReports
    \/ ResolveReport
    \/ PlanReadsReports

SpecReports == Init /\ [][ReportsNext]_vars

LiveNext ==
    \/ HandlerStep
    \/ ProviderAnswers
    \/ CurlMaxTime

\* curl ends after --max-time whatever the provider does; nothing else
\* makes a call in flight settle, since a provider may never answer.
SpecLive ==
    /\ Init
    /\ [][LiveNext]_vars
    /\ WF_vars(CurlMaxTime)

CamerasNext ==
    \/ CamBoot
    \/ CamRequest
    \/ GdotAnswers
    \/ AnalysisSettles
    \/ LoopResumes
    \/ CacheExpires

SpecCameras == Init /\ [][CamerasNext]_vars

-----------------------------------------------------------------------------
(* Properties of POST /plan (checked under Spec) *)

\* Index in routes of the route that re-query k pushed; 0 if it pushed none
PushedBy(k) ==
    LET lenBefore == IF k = 1 THEN Len(baseRoutes)
                     ELSE requeries[k - 1].routesAfter
    IN  IF requeries[k].routesAfter > lenBefore
        THEN requeries[k].routesAfter ELSE 0

\* Exposure score of the snapshot entry re-query k was made for
SourceScore(k) == baseRoutes[requeries[k].source].hazardExposureScore

\* C1: every route with isHazardAvoiding = true was pushed by a re-query
\* and scores strictly lower than the base candidate that re-query was made
\* for; a re-query whose first route scores equal or higher pushes nothing.
C1_AvoidanceStrictlyLower ==
    /\ \A i \in 1..Len(routes) :
           routes[i].isHazardAvoiding =>
               \E k \in 1..Len(requeries) :
                   /\ PushedBy(k) = i
                   /\ routes[i].hazardExposureScore < SourceScore(k)
    /\ \A k \in 1..Len(requeries) :
           (/\ Len(requeries[k].candidate) > 0
            /\ requeries[k].candidate[1].hazardExposureScore >= SourceScore(k))
           => PushedBy(k) = 0

\* C1 witness: a finished request in which one re-query pushed its route
\* and another returned a route that was not pushed.
C1_Witness ==
    /\ pc = "done"
    /\ \E k \in 1..Len(requeries) : PushedBy(k) > 0
    /\ \E k \in 1..Len(requeries) :
           Len(requeries[k].candidate) > 0 /\ PushedBy(k) = 0

\* C2: whatever settles or rejects, the handler is at a step it can take
\* until it answers (inside step 5 there is a snapshot entry left to
\* visit), and the answer is a 200 with at least one route, the
\* environmental data (mock data for a rejected provider) and a
\* recommendation; when both directions calls were rejected the base
\* candidates are the two mock routes.
C2_AlwaysAPlanningResult ==
    /\ pc \in {"idle", "fanout", "avoid", "recommend", "done"}
    /\ pc = "avoid" => avoidIdx <= Len(baseRoutes)
    /\ pc = "done" =>
           /\ response.status = 200
           /\ Len(routes) >= 1
           /\ response.environmental.weather
                  \in {"OpenWeatherMap", "getMockWeather"}
           /\ weatherResult = "rejected"
                  => response.environmental.weather = "getMockWeather"
           /\ response.environmental.airQuality
                  \in {"AirNow", "getMockAirQuality"}
           /\ aqiResult = "rejected"
                  => response.environmental.airQuality = "getMockAirQuality"
           /\ response.recommendation.by \in {"gemini", "fallback"}
           /\ response.recommendation.recommendedRouteId # "unknown"
           /\ (fastDirections.status = "rejected"
               /\ ecoDirections.status = "rejected")
                  => /\ Len(routes) >= 2
                     /\ routes[1].id = "route-fast-0"
                     /\ routes[2].id = "route-eco-0"
                     /\ \A k \in 1..2 :
                            /\ routes[k].polyline = mockPolyline
                            /\ ~routes[k].isHazardAvoiding

\* C2 witness: the answer of a request whose directions, weather and
\* air-quality calls were all rejected, whose hazard feeds gave nothing and
\* whose reasoner threw.
C2_Witness ==
    /\ pc = "done"
    /\ fastDirections.status = "rejected"
    /\ ecoDirections.status = "rejected"
    /\ weatherResult = "rejected"
    /\ aqiResult = "rejected"
    /\ Len(hazards) = 0
    /\ geminiResult.configured /\ ~geminiResult.ok
    /\ response.status = 200

\* C3: no two routes of a result share an id.
C3_RouteIdsUnique ==
    \A i, j \in 1..Len(routes) : i # j => routes[i].id # routes[j].id

\* C4: the recommended id is the id of a route of the result; an id from
\* the reasoner that no route has is replaced by the first route's id.
C4_RecommendedIdIsARoute ==
    pc = "done" =>
        /\ \E i \in 1..Len(routes) :
               routes[i].id = response.recommendation.recommendedRouteId
        /\ (/\ geminiResult.configured
            /\ geminiResult.ok
            /\ \A i \in 1..Len(routes) :
                   routes[i].id # geminiResult.recommendedRouteId)
           => response.recommendation.recommendedRouteId = routes[1].id

\* C4 witness: the reasoner answered with an id no route has.
C4_Witness ==
    /\ pc = "done"
    /\ geminiResult.configured /\ geminiResult.ok
    /\ \A i \in 1..Len(routes) :
           routes[i].id # geminiResult.recommendedRouteId
    /\ Len(routes) >= 2

\* C5: with avoidHazards = false, or with no hazard from the feeds, no
\* re-query is issued and no route is hazard-avoiding.
C5_NoAvoidanceWithoutFlagOrHazards ==
    (/\ pc \in {"avoid", "recommend", "done"}
     /\ (~request.avoidHazards \/ Len(hazards) = 0))
    => /\ Len(requeries) = 0
       /\ \A i \in 1..Len(routes) : ~routes[i].isHazardAvoiding

\* C5 witness: a finished request with avoidHazards = false whose base
\* routes have hazards nearby.
C5_Witness ==
    /\ pc = "done"
    /\ ~request.avoidHazards
    /\ \A i \in 1..Len(routes) : routes[i].hazardExposureScore > 0
    /\ Len(routes) = 2

\* C6: hazardsOnRoute has no id twice and its ids are exactly the ids in
\* the nearbyHazards of the routes of the result.
C6_HazardsOnRouteDeduplicated ==
    pc = "done" =>
        LET hs == response.hazardsOnRoute
        IN  /\ \A i, j \in 1..Len(hs) : i # j => hs[i].id # hs[j].id
            /\ {hs[i].id : i \in 1..Len(hs)}
                   = UNION {{routes[r].nearbyHazards[k].id :
                                k \in 1..Len(routes[r].nearbyHazards)} :
                            r \in 1..Len(routes)}

\* C6 witness: a result with a base and an avoidance route that have a
\* hazard in common, and more than one hazard overall.
C6_Witness ==
    /\ pc = "done"
    /\ Len(response.hazardsOnRoute) >= 2
    /\ \E a, b \in 1..Len(routes) :
           /\ ~routes[a].isHazardAvoiding
           /\ routes[b].isHazardAvoiding
           /\ \E x \in 1..Len(routes[a].nearbyHazards),
                 y \in 1..Len(routes[b].nearbyHazards) :
                  routes[a].nearbyHazards[x].id = routes[b].nearbyHazards[y].id

\* C7: every route's hazardExposureScore is an integer from 0 to 100.
C7_RouteScoreInRange ==
    \A i \in 1..Len(routes) : routes[i].hazardExposureScore \in 0..100

\* C7 witness: a result holding a mock route and an avoidance route, both
\* with hazards nearby and a positive score.
C7_Witness ==
    /\ pc = "done"
    /\ \E a, b \in 1..Len(routes) :
           /\ ~routes[a].isHazardAvoiding
           /\ routes[a].hazardExposureScore > 0
           /\ routes[b].isHazardAvoiding
           /\ routes[b].hazardExposureScore > 0
           /\ routes[a].polyline = mockPolyline

-----------------------------------------------------------------------------
(* Properties of the geo.ts functions (checked under SpecGeo) *)

\* C8: calculateHazardExposureScore returns a value from 0 to 100 for any
\* list of scored hazards, distances above 500 m included, and 0 for the
\* empty list.
C8_ScoreInRangeForAnyDistance ==
    gPc = "scored" =>
        /\ gScore \in 0..100
        /\ Len(gNearby) = 0 => gScore = 0

\* 500 times the sum of the contributions of list[k..], front to back
RECURSIVE ContributionsFrom(_, _)
ContributionsFrom(list, k) ==
    IF k > Len(list) THEN 0
    ELSE (500 - list[k].distanceMeters) * list[k].severity * 3
         + ContributionsFrom(list, k + 1)

\* Every hazard of the list is a severity-10 hazard at distance 0
AllWorstCase(list) ==
    \A k \in 1..Len(list) :
        list[k].distanceMeters = 0 /\ list[k].severity = 10

\* C9: for distances 0..500 and severities 0..10 the score is the sum of
\* (1 - d/500) * (severity/10) * 30 rounded to the nearest integer (halves
\* up) and capped at 100: 30 for one severity-10 hazard at distance 0, 100
\* for four or more of them, 0 for none; a path with no hazard within 500 m
\* of its points gets an empty list and the score 0.
C9_ScoreIsCappedRoundedSum ==
    /\ (/\ gPc = "scored"
        /\ \A k \in 1..Len(gNearby) :
               /\ gNearby[k].distanceMeters \in 0..500
               /\ gNearby[k].severity \in 0..10)
       => LET n == ContributionsFrom(gNearby, 1)
          IN  /\ IF 2 * n >= 199 * 500 THEN gScore = 100
                 ELSE /\ 1000 * gScore - 500 <= 2 * n
                      /\ 2 * n < 1000 * gScore + 500
              /\ (Len(gNearby) = 1 /\ AllWorstCase(gNearby)) => gScore = 30
              /\ (Len(gNearby) >= 4 /\ AllWorstCase(gNearby)) => gScore = 100
              /\ Len(gNearby) = 0 => gScore = 0
    /\ (/\ gOrigin = "findNearbyHazards"
        /\ gRadius = 500
        /\ \A h \in 1..Len(gHazards), p \in 1..Len(gPath) :
               haversineDistance(gPath[p],
                   [lat |-> gHazards[h].lat, lng |-> gHazards[h].lng])
                   > 5000)
       => /\ Len(gNearby) = 0
          /\ gPc = "scored" => gScore = 0

\* C9 witness: four severity-10 hazards at distance 0 were scored 100.
C9_Witness ==
    /\ gPc = "scored"
    /\ Len(gNearby) >= 4
    /\ AllWorstCase(gNearby)
    /\ gScore = 100

ExhaustiveMin(points, loc) ==
    LET idx == SampledIndices(Len(points))
        ds == {haversineDistance(points[idx[i]], loc) : i \in 1..Len(idx)}
    IN  CHOOSE d \in ds : \A e \in ds : d <= e

\* The hazard is within gRadius of a sampled point of gPath
Qualifies(hazard) ==
    /\ Len(gPath) > 0
    /\ ExhaustiveMin(gPath, [lat |-> hazard.lat, lng |-> hazard.lng])
           <= gRadius * 10

\* Positions of the list whose entry has the id
WithId(list, id) == {k \in 1..Len(list) : list[k].id = id}

\* C11: findNearbyHazards returns one entry for an id when an input hazard
\* with that id is within the radius, however many input hazards carry the
\* id, and no entry for any other id.
C11_OneEntryPerHazardId ==
    gOrigin = "findNearbyHazards" =>
        /\ \A k \in 1..Len(gHazards) :
               Cardinality(WithId(gNearby, gHazards[k].id))
                   = IF \E j \in WithId(gHazards, gHazards[k].id) :
                            Qualifies(gHazards[j])
                     THEN 1 ELSE 0
        /\ \A k \in 1..Len(gNearby) : WithId(gHazards, gNearby[k].id) # {}

\* C11 witness: two input hazards with the same id, both within the radius,
\* gave one entry.
C11_Witness ==
    /\ gOrigin = "findNearbyHazards"
    /\ Len(gHazards) = 2
    /\ gHazards[1].id = gHazards[2].id
    /\ gHazards[1] # gHazards[2]
    /\ Qualifies(gHazards[1]) /\ Qualifies(gHazards[2])
    /\ Len(gNearby) = 1

\* C12: a hazard whose id no other input hazard has is in the result
\* exactly when its smallest distance to the sampled points, over all of
\* them, is at most radiusMeters.
C12_EarlyExitKeepsMembership ==
    gOrigin = "findNearbyHazards" =>
        \A k \in 1..Len(gHazards) :
            WithId(gHazards, gHazards[k].id) = {k} =>
                (WithId(gNearby, gHazards[k].id) # {} <=> Qualifies(gHazards[k]))

\* C12 witness: the scan of a reported hazard stopped early (its reported
\* distance is above the smallest one) and another hazard was scanned to
\* the end and left out.
C12_Witness ==
    /\ gOrigin = "findNearbyHazards"
    /\ Len(gHazards) = 2
    /\ Len(gNearby) = 1
    /\ gNearby[1].distanceMeters
           > RoundDm(ExhaustiveMin(gPath, [lat |-> gNearby[1].lat,
                                           lng |-> gNearby[1].lng]))
    /\ \E k \in 1..2 : ~Qualifies(gHazards[k])

\* Hazard b is at least as far as hazard a from every sampled point of gPath
AtLeastAsFar(b, a) ==
    LET idx == SampledIndices(Len(gPath))
    IN  \A i \in 1..Len(idx) :
            haversineDistance(gPath[idx[i]], [lat |-> b.lat, lng |-> b.lng])
                >= haversineDistance(gPath[idx[i]],
                                     [lat |-> a.lat, lng |-> a.lng])

\* C18: of two reported hazards (each the only input hazard with its id),
\* the one at least as far from every sampled path point is not reported
\* with the smaller distanceMeters.
C18_FartherIsNotReportedNearer ==
    gOrigin = "findNearbyHazards" =>
        \A a, b \in 1..Len(gNearby) :
            (/\ Cardinality(WithId(gHazards, gNearby[a].id)) = 1
             /\ Cardinality(WithId(gHazards, gNearby[b].id)) = 1
             /\ AtLeastAsFar(gNearby[b], gNearby[a]))
            => gNearby[b].distanceMeters >= gNearby[a].distanceMeters

\* The string stops inside a codeword: its last character has the
\* continuation bit, or it holds an odd number of complete codewords (a
\* latitude without its longitude).
EndsMidCodeword(encoded) ==
    /\ Len(encoded) > 0
    /\ \/ encoded[Len(encoded)] - 63 >= 32
       \/ Cardinality({k \in 1..Len(encoded) : encoded[k] - 63 < 32}) % 2 = 1

\* C14: decodePolyline fails with MalformedPathError, and returns no
\* coordinate list, for a string that stops inside a codeword.
C14_TruncatedPolylineFails ==
    (gPc = "decoded" /\ EndsMidCodeword(gEncoded))
        => gDecodeOutcome.status = "MalformedPathError"

\* First position of the path nearest to the hazard, over all of its points
NearestIndex(points, hazard) ==
    LET D(i) == haversineDistance(points[i],
                                  [lat |-> hazard.lat, lng |-> hazard.lng])
    IN  CHOOSE n \in 1..Len(points) :
            /\ \A j \in 1..Len(points) : D(n) <= D(j)
            /\ \A j \in 1..(n - 1) : D(j) > D(n)

\* C20: generateAvoidanceWaypoints returns nothing for a path of fewer than
\* 2 points or for no hazards; otherwise one waypoint per hazard in input
\* order, the k-th made from the k-th hazard and from the path points just
\* before and after the point nearest to it, both positions kept inside the
\* path.
C20_OneWaypointPerHazardInOrder ==
    gPc = "waypoints" =>
        IF Len(gPath) < 2 \/ Len(gNearby) = 0 THEN gWaypoints = <<>>
        ELSE /\ Len(gWaypoints) = Len(gNearby)
             /\ \A k \in 1..Len(gNearby) :
                    LET n == NearestIndex(gPath, gNearby[k])
                        w == gWaypoints[k]
                    IN  /\ w.hazard = gNearby[k].id
                        /\ w.beforeIdx \in 1..Len(gPath)
                        /\ w.afterIdx \in 1..Len(gPath)
                        /\ w.beforeIdx = (IF n = 1 THEN 1 ELSE n - 1)
                        /\ w.afterIdx
                               = (IF n = Len(gPath) THEN n ELSE n + 1)

\* C20 witness: two waypoints, the first for a hazard nearest to the first
\* path point and the second for a hazard nearest to the last one.
C20_Witness ==
    /\ gPc = "waypoints"
    /\ Len(gWaypoints) = 2
    /\ NearestIndex(gPath, gNearby[1]) = 1
    /\ gWaypoints[1].beforeIdx = 1
    /\ NearestIndex(gPath, gNearby[2]) = Len(gPath)
    /\ gWaypoints[2].afterIdx = Len(gPath)

-----------------------------------------------------------------------------
(* Properties of generateFallbackRecommendation (checked under
   SpecFallback) *)

\* Positions of the candidates with the two flags as given
OfKind(eco, avoiding) ==
    {k \in 1..Len(fbRoutes) :
        /\ fbRoutes[k].isEcoFriendly \in eco
        /\ fbRoutes[k].isHazardAvoiding \in avoiding}

\* The candidate the fallback recommended, as positions of fbRoutes
Recommended ==
    {k \in 1..Len(fbRoutes) :
        fbRoutes[k].id = fbRecommendation.recommendedRouteId}

\* C13: with at least one candidate the fallback returns a recommendation
\* for (1) a hazard-avoiding eco candidate if there is one and preferEco
\* holds, else (2) a hazard-avoiding candidate if there is one and there is
\* a hazard, else (3) an eco candidate that is not hazard-avoiding if there
\* is one and preferEco holds, else (4) the first candidate that is neither,
\* or the first candidate if there is none.
C13_FallbackPriorityOrder ==
    (fbPc = "returned" /\ Len(fbRoutes) >= 1) =>
        LET safeEco == OfKind({TRUE}, {TRUE})
            safe == OfKind(BOOLEAN, {TRUE})
            eco == OfKind({TRUE}, {FALSE})
            fastest == OfKind({FALSE}, {FALSE})
        IN  /\ fbRecommendation.by = "fallback"
            /\ Cardinality(Recommended) = 1
            /\ IF fbPreferEco /\ safeEco # {}
               THEN Recommended \subseteq safeEco
               ELSE IF safe # {} /\ Len(fbHazards) >= 1
               THEN Recommended \subseteq safe
               ELSE IF fbPreferEco /\ eco # {}
               THEN Recommended \subseteq eco
               ELSE IF fastest # {}
               THEN Recommended = {CHOOSE k \in fastest :
                                       \A j \in fastest : k <= j}
               ELSE Recommended = {1}

\* C13 witness: preferEco holds, there is a hazard, and the list has an eco
\* candidate and a hazard-avoiding one but none that is both; the
\* hazard-avoiding one, which is not the first of the list, was recommended.
C13_Witness ==
    /\ fbPc = "returned"
    /\ fbPreferEco
    /\ Len(fbHazards) >= 1
    /\ OfKind({TRUE}, {TRUE}) = {}
    /\ OfKind({TRUE}, {FALSE}) # {}
    /\ Recommended \subseteq OfKind({FALSE}, {TRUE})
    /\ Recommended # {}
    /\ 1 \notin Recommended

-----------------------------------------------------------------------------
(* Further properties of POST /plan (checked under Spec) *)

\* C15: a candidate whose path cannot be decoded (its polyline stops inside
\* a codeword) is left out of the result, and the request still ends with
\* a successful result.
C15_UndecodableCandidateExcluded ==
    pc = "done" =>
        /\ response.status = 200
        /\ \A i \in 1..Len(routes) : ~EndsMidCodeword(routes[i].polyline)

\* Snapshot entries step 5 has to re-query: those with nearby hazards and
\* at least one waypoint
NeedsRequery ==
    {i \in 1..Len(baseRoutes) :
        /\ Len(baseRoutes[i].nearbyHazards) > 0
        /\ Len(generateAvoidanceWaypoints(
                   decodePolyline(baseRoutes[i].polyline),
                   baseRoutes[i].nearbyHazards)) > 0}

\* C16: a rejected avoidance re-query appends no route; the routes listed
\* before it keep their nearbyHazards and hazardExposureScore; every other
\* base candidate that needs a re-query still gets one; and the request
\* ends with a successful result.
C16_FailedRequeryIsSkipped ==
    /\ \A k \in 1..Len(requeries) :
           requeries[k].status = "rejected" =>
               /\ PushedBy(k) = 0
               /\ requeries[k].candidate = <<>>
    /\ Len(baseRoutes) > 0 =>
           /\ Len(routes) >= Len(baseRoutes)
           /\ SubSeq(routes, 1, Len(baseRoutes)) = baseRoutes
    /\ \A k \in 1..Len(requeries) :
           PushedBy(k) > 0 => routes[PushedBy(k)] = requeries[k].candidate[1]
    /\ (pc \in {"recommend", "done"} /\ Len(baseRoutes) > 0) =>
           {requeries[k].source : k \in 1..Len(requeries)} = NeedsRequery
    /\ pc = "done" => response.status = 200

\* C16 witness: the re-query for the first base candidate was rejected, the
\* one for the second base candidate returned a route that was appended,
\* and the request was answered.
C16_Witness ==
    /\ pc = "done"
    /\ Len(requeries) = 2
    /\ requeries[1].status = "rejected"
    /\ requeries[1].source = 1
    /\ requeries[2].source = 2
    /\ PushedBy(2) = 3
    /\ response.status = 200

-----------------------------------------------------------------------------
(* Properties of the reports router (checked under SpecReports) *)

\* The report came with an image that the verification did not confirm
FailedVerification(report) == report.hasImage /\ ~report.verifiedByAi

\* C19: a report whose image failed the verification is not in the store,
\* not in an answer of GET /api/reports, and not among the hazards route
\* planning builds from the reports.
C19_UnverifiedImageReportRejected ==
    /\ \A k \in 1..Len(reports) : ~FailedVerification(reports[k])
    /\ \A k \in 1..Len(repAnswer) : ~FailedVerification(repAnswer[k])
    /\ \A h \in 1..Len(repHazards) :
           \A k \in 1..Len(reports) :
               repHazards[h].id = "report-" \o reports[k].reportId
                   => ~FailedVerification(reports[k])

-----------------------------------------------------------------------------
(* Properties of POST /plan with its calls in flight (checked under
   SpecLive) *)

\* C17: every provider call in flight eventually settles, as an answer or
\* as a failure, even if its provider never responds; so no await of the
\* handler lasts forever.
C17_SlowProviderCannotStall ==
    \A c \in ProviderCalls : (calls[c] = "inFlight") ~> (calls[c] = "settled")

-----------------------------------------------------------------------------
(* Properties of step 5 and of the scoring of POST /plan (checked under
   Spec) *)

\* Number of base candidates of the request: the snapshot when step 5 ran,
\* every route otherwise
BaseCount == IF Len(baseRoutes) > 0 THEN Len(baseRoutes) ELSE Len(routes)

\* C23: a re-query asks to avoid highways exactly when its source candidate
\* is eco; every route it gets, appended or not, carries the source's
\* isEcoFriendly and isHazardAvoiding = true; the base candidates carry
\* isHazardAvoiding = false.
C23_RequeryKeepsHighwayPreference ==
    /\ \A k \in 1..Len(requeries) :
           LET source == baseRoutes[requeries[k].source]
           IN  /\ requeries[k].avoidHighways <=> source.isEcoFriendly
               /\ \A c \in 1..Len(requeries[k].candidate) :
                      /\ requeries[k].candidate[c].isEcoFriendly
                             = source.isEcoFriendly
                      /\ requeries[k].candidate[c].isHazardAvoiding
               /\ PushedBy(k) > 0 =>
                      /\ routes[PushedBy(k)].isEcoFriendly
                             = source.isEcoFriendly
                      /\ routes[PushedBy(k)].isHazardAvoiding
    /\ \A i \in 1..Len(routes) :
           i <= BaseCount => ~routes[i].isHazardAvoiding

\* C23 witness: a finished request in which the re-query for the fast
\* candidate and the re-query for the eco candidate both appended a route.
C23_Witness ==
    /\ pc = "done"
    /\ \E j, k \in 1..Len(requeries) :
           /\ PushedBy(j) > 0 /\ ~requeries[j].avoidHighways
           /\ PushedBy(k) > 0 /\ requeries[k].avoidHighways

\* C27: the sources of the re-queries are entries of the snapshot, each
\* used at most once and in order; the snapshot stays the prefix of routes;
\* each re-query appends at most one route, so the routes number at most
\* twice the base candidates, which number at most 2.
C27_AvoidanceIteratesSnapshot ==
    /\ \A k \in 1..Len(requeries) :
           requeries[k].source \in 1..Len(baseRoutes)
    /\ \A j, k \in 1..Len(requeries) :
           j < k => requeries[j].source < requeries[k].source
    /\ Len(baseRoutes) > 0 =>
           /\ Len(routes) >= Len(baseRoutes)
           /\ SubSeq(routes, 1, Len(baseRoutes)) = baseRoutes
    /\ Len(routes) - BaseCount
           = Cardinality({k \in 1..Len(requeries) : PushedBy(k) > 0})
    /\ BaseCount <= 2
    /\ Len(routes) <= 2 * BaseCount

\* C27 witness: a finished request with two base candidates and two
\* appended routes, one of which has hazards nearby itself.
C27_Witness ==
    /\ pc = "done"
    /\ Len(baseRoutes) = 2
    /\ Len(routes) = 4
    /\ \E i \in 3..4 : Len(routes[i].nearbyHazards) > 0

\* C28: every route's nearbyHazards is what findNearbyHazards gives for the
\* route's own path against the hazards of this request, and its
\* hazardExposureScore is calculateHazardExposureScore of that list.
C28_ScoresFromOwnNearbyHazards ==
    \A i \in 1..Len(routes) :
        /\ routes[i].nearbyHazards
               = findNearbyHazards(decodePolyline(routes[i].polyline),
                                   hazards, HAZARD_RADIUS_METERS)
        /\ routes[i].hazardExposureScore
               = calculateHazardExposureScore(routes[i].nearbyHazards)

\* C28 witness: a finished request on the mock routes, whose built-in
\* scores 15 and 8 were replaced, with an appended avoidance route.
C28_Witness ==
    /\ pc = "done"
    /\ fastDirections.status = "rejected"
    /\ ecoDirections.status = "rejected"
    /\ routes[1].hazardExposureScore # 15
    /\ routes[2].hazardExposureScore # 8
    /\ \E i \in 1..Len(routes) : routes[i].isHazardAvoiding

-----------------------------------------------------------------------------
(* Further properties of the geo.ts functions and of their use in step 5
   (checked under SpecGeo) *)

\* C24: a re-query passes at most 5 waypoints and at least one; they are
\* the waypoints of the first entries of the candidate's nearbyHazards, in
\* order, and no entry left out is nearer than an entry taken; without
\* nearby hazards or without waypoints no re-query is made.
C24_AtMostFiveNearestWaypoints ==
    gPc = "requeried" =>
        LET sent == gSent.waypoints
        IN  /\ Len(sent) <= 5
            /\ gSent.issued <=> Len(sent) >= 1
            /\ gSent.issued <=> (Len(gNearby) > 0 /\ Len(gPath) >= 2)
            /\ gSent.issued => Len(sent) = Min(5, Len(gNearby))
            /\ \A k \in 1..Len(sent) : sent[k].hazard = gNearby[k].id
            /\ \A k \in 1..Len(sent) :
                   \A j \in (Len(sent) + 1)..Len(gNearby) :
                       gNearby[k].distanceMeters <= gNearby[j].distanceMeters

\* C24 witness: a re-query for a candidate with more than 5 nearby hazards
\* whose order by distance is not the order they were handed in.
C24_Witness ==
    /\ gPc = "requeried"
    /\ gSent.issued
    /\ Len(gNearby) > 5
    /\ gNearby[1].id # gHazards[1].id
    /\ gNearby[5].distanceMeters < gNearby[6].distanceMeters

TrueMin(entry) ==
    RoundDm(ExhaustiveMin(gPath, [lat |-> entry.lat, lng |-> entry.lng]))

\* C29 as stated: a reported distanceMeters is never below the rounded true
\* minimum, is below half the radius whenever it is above that minimum, and
\* is never above radiusMeters.
C29_OverstatedOnlyBelowHalfRadius ==
    gOrigin = "findNearbyHazards" =>
        \A k \in 1..Len(gNearby) :
            /\ gNearby[k].distanceMeters >= TrueMin(gNearby[k])
            /\ gNearby[k].distanceMeters > TrueMin(gNearby[k])
                   => 2 * gNearby[k].distanceMeters < gRadius
            /\ gNearby[k].distanceMeters <= gRadius

\* C29 amended: a reported distanceMeters is never below the rounded true
\* minimum, is at most half the radius (rounded to the metre) whenever it is
\* above that minimum, and is never above radiusMeters.
C29_OverstatedAtMostHalfRadius ==
    gOrigin = "findNearbyHazards" =>
        \A k \in 1..Len(gNearby) :
            /\ gNearby[k].distanceMeters >= TrueMin(gNearby[k])
            /\ gNearby[k].distanceMeters > TrueMin(gNearby[k])
                   => gNearby[k].distanceMeters <= (gRadius + 1) \div 2
            /\ gNearby[k].distanceMeters <= gRadius

\* C29 witness: a hazard whose scan stopped early is reported at exactly
\* half the radius, above its true minimum.
C29_Witness ==
    /\ gOrigin = "findNearbyHazards"
    /\ \E k \in 1..Len(gNearby) :
           /\ gNearby[k].distanceMeters > TrueMin(gNearby[k])
           /\ 2 * gNearby[k].distanceMeters = gRadius

\* ---- Properties of generateAvoidanceWaypoint (checked under SpecGeo) ----

\* The midpoint of the chosen segment, in halves of 1e-5 degree
MidLat2 == gBefore.lat + gAfter.lat

MidLng2 == gBefore.lng + gAfter.lng

\* Which side of the line through the segment a point (in halves of
\* 1e-5 degree) lies on: the sign of its product with the perpendicular
\* (-dLng, dLat) of after - before.
SideOf(lat2, lng2) ==
    (lat2 - MidLat2) * (-(gAfter.lng - gBefore.lng))
        + (lng2 - MidLng2) * (gAfter.lat - gBefore.lat)

\* The product of the displacement of the waypoint with after - before
AlongSegment ==
    (gWaypoint.lat2 - MidLat2) * (gAfter.lat - gBefore.lat)
        + (gWaypoint.lng2 - MidLng2) * (gAfter.lng - gBefore.lng)

\* The squared length of the displacement of the waypoint
DisplacementSq ==
    (gWaypoint.lat2 - MidLat2) * (gWaypoint.lat2 - MidLat2)
        + (gWaypoint.lng2 - MidLng2) * (gWaypoint.lng2 - MidLng2)

\* offsetMeters / 111_000 degrees in halves of 1e-5 degree, rounded down
OffsetHalves == (gOffset * 200) \div 111

\* The displacement is offsetMeters / 111_000 degrees long, up to the
\* rounding of the two components.
DisplacedByOffset ==
    /\ DisplacementSq >= (OffsetHalves - 3) * (OffsetHalves - 3)
    /\ DisplacementSq <= (OffsetHalves + 4) * (OffsetHalves + 4)

\* C21: for before # after the waypoint is the midpoint of the segment
\* displaced along the perpendicular of after - before by
\* offsetMeters / 111000 degrees; the waypoint and the hazard are never
\* strictly on the same side of the line, and a hazard exactly on the line
\* sends the waypoint to the negative side.
C21_WaypointOppositeHazard ==
    (gPc = "waypoint" /\ gBefore # gAfter) =>
        LET hazardSide == SideOf(2 * gHazardLoc.lat, 2 * gHazardLoc.lng)
            waypointSide == SideOf(gWaypoint.lat2, gWaypoint.lng2)
        IN  /\ ~(hazardSide > 0 /\ waypointSide > 0)
            /\ ~(hazardSide < 0 /\ waypointSide < 0)
            /\ hazardSide = 0 => waypointSide < 0
            /\ waypointSide # 0
            /\ Abs(AlongSegment)
                   <= 2 * (Abs(gAfter.lat - gBefore.lat)
                           + Abs(gAfter.lng - gBefore.lng))
            /\ DisplacedByOffset

\* A hazard exactly on the line of a proper segment, away from its midpoint
C21_Witness ==
    /\ gPc = "waypoint"
    /\ gBefore # gAfter
    /\ SideOf(2 * gHazardLoc.lat, 2 * gHazardLoc.lng) = 0
    /\ 2 * gHazardLoc.lat # MidLat2
    /\ SideOf(gWaypoint.lat2, gWaypoint.lng2) < 0

\* C22: for before = after the waypoint is the midpoint displaced directly
\* away from the hazard by the offset, or the midpoint plus (0.01, 0.01)
\* degrees when the hazard is at the midpoint; in both cases it differs
\* from the hazard.
C22_DegenerateSegmentStillMovesAway ==
    (gPc = "waypoint" /\ gBefore = gAfter) =>
        LET awayLat2 == MidLat2 - 2 * gHazardLoc.lat
            awayLng2 == MidLng2 - 2 * gHazardLoc.lng
            moveLat2 == gWaypoint.lat2 - MidLat2
            moveLng2 == gWaypoint.lng2 - MidLng2
        IN  /\ gWaypoint # [lat2 |-> 2 * gHazardLoc.lat,
                            lng2 |-> 2 * gHazardLoc.lng]
            /\ IF awayLat2 = 0 /\ awayLng2 = 0
               THEN moveLat2 = 2000 /\ moveLng2 = 2000
               ELSE /\ moveLat2 * awayLat2 + moveLng2 * awayLng2 > 0
                    /\ Abs(moveLat2 * awayLng2 - moveLng2 * awayLat2)
                           <= 2 * (Abs(awayLat2) + Abs(awayLng2))
                    /\ DisplacedByOffset

\* A degenerate segment whose only point is the hazard's own location
C22_Witness ==
    /\ gPc = "waypoint"
    /\ gBefore = gAfter
    /\ gHazardLoc = gBefore
    /\ gWaypoint = [lat2 |-> 2 * gBefore.lat + 2000,
                    lng2 |-> 2 * gBefore.lng + 2000]

\* A degenerate segment with the hazard elsewhere
C22_AwayWitness ==
    /\ gPc = "waypoint"
    /\ gBefore = gAfter
    /\ gHazardLoc # gBefore
    /\ gWaypoint.lat2 # MidLat2 + 2000


\* ---- Properties of the cameras router (checked under SpecCameras) ----

\* No handler is waiting for GDOT
NoCamRequestInFlight == \A kind \in CamRequestKinds : camRequests[kind] = 0

\* Some status is stored whose writer started when `epoch` refreshes had
\* happened
StoredFrom(epoch) == \E c \in CamIds : hazardStatuses[c] = epoch

\* C30: at most one background analysis loop runs at any time, and the flag
\* is set exactly while it runs (so it is back to false once the loop has
\* processed its last batch, whatever analyses failed); a call of
\* analyzeAllCamerasInBackground made while the flag is set starts nothing;
\* a loop ends only with its last batch settled.
C30_SingleBackgroundLoop ==
    /\ [](/\ Len(loops) <= 1
          /\ backgroundAnalysisInProgress <=> Len(loops) = 1)
    /\ [][/\ backgroundAnalysisInProgress =>
                 /\ Len(loops') <= Len(loops)
                 /\ \A k \in 1..Len(loops') :
                        /\ loops'[k].startEpoch = loops[k].startEpoch
                        /\ loops'[k].cameras = loops[k].cameras
          /\ Len(loops') < Len(loops) =>
                 /\ loops[1].pending = {}
                 /\ loops[1].i + BATCH_SIZE >= loops[1].cameras.n
                 /\ ~backgroundAnalysisInProgress']_vars

\* A refresh was answered while an older loop ran, so its calls of
\* analyzeAllCamerasInBackground returned at once; that loop then ended,
\* with a failed analysis, and the flag is false again.
C30_Witness ==
    /\ geminiConfigured
    /\ camCounters.refreshes > 0
    /\ NoCamRequestInFlight
    /\ loops = <<>>
    /\ ~backgroundAnalysisInProgress
    /\ camLog.geminiFailed
    /\ \E c \in CamIds : hazardStatuses[c] # -1
    /\ ~StoredFrom(camCounters.refreshes)

\* C26: after a refresh no stored status was written by an analysis that
\* started before it, and once the refresh has answered (Gemini being
\* configured) an analysis started after it is running or has stored its
\* statuses.
C26_RefreshForcesReanalysis ==
    /\ \A c \in CamIds :
           hazardStatuses[c] # -1 => hazardStatuses[c] = camCounters.refreshes
    /\ (/\ geminiConfigured
        /\ camCounters.refreshes > 0
        /\ NoCamRequestInFlight) =>
           \/ \E k \in 1..Len(loops) :
                  loops[k].startEpoch = camCounters.refreshes
           \/ StoredFrom(camCounters.refreshes)

=============================================================================
